---- MODULE Spec2Model ----
(***************************************************************************)
(* PolkadotAdapter (packages/adapters/polkadot/src/adapter.ts): the        *)
(* multi-endpoint RPC client acquisition and cache (getApi, resolveWsUrls, *)
(* getBalance) and the connection lifecycle (connect, disconnect,          *)
(* ensureExtensionsEnabled, setupAccountSubscription).                     *)
(*                                                                         *)
(* JavaScript runs one task at a time: an action below is the code between *)
(* two suspension points (await) of one call, and the actions of different *)
(* calls interleave freely.                                                *)
(***************************************************************************)
EXTENDS Integers, Sequences, FiniteSets, TLC

\* ------------------------------------------------------------------ bounds
MaxApiCalls == 3        \* getApi / getBalance calls issued in one behaviour
MaxInFlight == 2        \* of them, calls that have not returned yet
MaxClients == 3         \* clients created in one behaviour
MaxTicks == 1           \* clock advances in one behaviour
MaxDrops == 1           \* client disconnections in one behaviour
MaxConnects == 3        \* connect calls issued in one behaviour
MaxDisconnects == 1     \* disconnect calls issued in one behaviour
MaxWsUrls == 2          \* length of a webSocket list of a network descriptor
MaxHttpUrls == 1        \* length of an http list of a network descriptor
MaxNotifications == 2   \* account notifications one subscription delivers

\* --------------------------------------------------------------- constants
CACHE_TTL == 10000
ATTEMPT_TIMEOUT == 15000

Range(s) == {s[i] : i \in 1..Len(s)}

\* ---------------------------------------------------------------- networks
\* A URL is its scheme prefix followed by the rest of its text.
Url(scheme, rest) == <<scheme, rest>>
startsWith_anyScheme(url, prefix) == url[1] \in {prefix, "https://"}
startsWith(url, prefix) == url[1] = prefix

wssA == Url("wss://", "a")
wssB == Url("wss://", "b")
wssC == Url("wss://", "c")
wssK == Url("wss://", "k")
httpsH == Url("https://", "h")

NetIds == {"hub", "ksm", "bare"}

\* CaipNetwork values supplied by the network configuration: rpcUrls grouped
\* by source (default, public) and by declared transport (webSocket, http).
caipNetworks ==
  [n \in NetIds |->
     CASE n = "hub" ->
            [id |-> "hub", caipNetworkId |-> "polkadot:hub", symbol |-> "DOT",
             rpcUrls |-> [default |-> [webSocket |-> <<wssA, wssB>>, http |-> <<httpsH>>],
                          public  |-> [webSocket |-> <<wssB>>, http |-> <<wssC>>]]]
       [] n = "ksm" ->
            [id |-> "ksm", caipNetworkId |-> "polkadot:ksm", symbol |-> "KSM",
             rpcUrls |-> [default |-> [webSocket |-> <<wssK>>, http |-> <<>>],
                          public  |-> [webSocket |-> <<>>, http |-> <<>>]]]
       [] OTHER ->
            [id |-> "bare", caipNetworkId |-> "polkadot:bare", symbol |-> "WND",
             rpcUrls |-> [default |-> [webSocket |-> <<>>, http |-> <<httpsH>>],
                          public  |-> [webSocket |-> <<>>, http |-> <<>>]]]]

\* urls.push(url) for every url of more that urls does not include yet
RECURSIVE pushMissing(_, _)
pushMissing(urls, more) ==
  IF more = <<>> THEN urls
  ELSE pushMissing(IF Head(more) \in Range(urls) THEN urls ELSE Append(urls, Head(more)),
                   Tail(more))

resolveWsUrls(network) ==
  LET defaultRpc == network.rpcUrls.default
      publicRpc == network.rpcUrls.public
      fromDefault == defaultRpc.webSocket
      withPublic == pushMissing(fromDefault, publicRpc.webSocket)
      httpUrls == defaultRpc.http \o publicRpc.http
  IN pushMissing(withPublic, SelectSeq(httpUrls, LAMBDA u : startsWith(u, "wss://")))

\* ------------------------------------------------------------------- state
VARIABLES
  clients,        \* every client (WsProvider + ApiPromise) the adapter created
  apiCache,       \* apiCache: network id -> cached client (0: no entry)
  balanceCache,   \* balanceCache: <<caipNetworkId, address>> -> entry
  api,            \* the getApi / getBalance calls and where each one stands
  now, ticks,     \* Date.now() and the number of clock advances so far
  drops,          \* number of client disconnections so far
  failing         \* the networks whose endpoints fail for every caller

VARIABLES
  isConnecting,       \* the ConnectGuard
  extensionsEnabled,  \* web3Enable has succeeded
  enablePromise,      \* the web3Enable promise in flight (0: undefined)
  promises,           \* every web3Enable promise: pending, nonEmpty, empty, rejected
  accountUnsubscribe, \* the subscription whose unsubscribe the adapter holds (0: undefined)
  subs,               \* every web3AccountsSubscribe subscription: its connector, its
                      \* state, the notifications it has delivered
  connections,        \* the sessions (AdapterBlueprint.connections)
  connectors,         \* availableConnectors
  events,             \* what the adapter emitted, in order
  conn,               \* the connect calls and where each one stands
  libs,               \* this.libs: none, empty, dapp, api, full
  warmups,            \* the networks connect launched getApi for
  disconnects,        \* number of disconnect calls so far
  env                 \* the configuration: networks, active network, onSelectAccount

VARIABLES
  resolveIn,          \* the rpcUrls of a network descriptor handed to resolveWsUrls
  resolveOut          \* what resolveWsUrls returned for it

pureVars == <<resolveIn, resolveOut>>
apiVars == <<clients, apiCache, balanceCache, api, now, ticks, drops, failing>>
connVars == <<isConnecting, extensionsEnabled, enablePromise, promises, accountUnsubscribe,
              subs, connections, connectors, events, conn, libs, warmups, disconnects, env>>
vars == <<apiVars, connVars, pureVars>>

ApiCalls == 1..MaxApiCalls
Addrs == {"5Alice", "5Bob"}
BalanceKeys == {<<caipNetworks[n].caipNetworkId, addr>> : n \in NetIds, addr \in Addrs}

noUrl == <<>>
noError == [kind |-> "none", url |-> noUrl]
noBalance == [balance |-> <<>>, symbol |-> "", src |-> "none"]
noEntry == [balance |-> <<>>, symbol |-> "", timestamp |-> -1]

idleCall ==
  [pc |-> "idle", kind |-> "none", net |-> "none", addr |-> "none",
   found |-> "none",       \* what getApi found in the cache: empty, live, dead, throws
   stale |-> 0,            \* the cached client getApi found dead
   urls |-> <<>>,          \* wsUrls
   idx |-> 0,              \* position of the current candidate in wsUrls
   cur |-> 0,              \* client of the current attempt
   ops |-> <<>>,           \* what this call did, in order: evict, open, fail, timeout, cache
   lastError |-> noError,
   acq |-> "none",         \* how getApi ended: cached, created, config, exhausted
   handle |-> 0,           \* the client getApi returned
   err |-> noError,        \* the error getApi threw
   bal |-> noBalance,      \* what getBalance returned
   afterDrop |-> FALSE]    \* issued after the client of an earlier getBalance of the
                           \* same network and address had lost its connection

\* --------------------------------------------------- connection-side values
ConnectCalls == 1..MaxConnects

\* getDefaultChainId (adapter.ts:1346): the genesis hash of the relay chain
DEFAULT_CHAIN_ID == "91b171bb158e2d38"

\* What getCaipNetworks('polkadot') and ChainController.getActiveCaipNetwork
\* answer, and whether the application passed onSelectAccount.
Envs ==
  { [networks |-> <<"hub", "ksm">>, activeCaip |-> "none", onSelectAccount |-> FALSE],
    [networks |-> <<"hub", "ksm">>, activeCaip |-> "ksm", onSelectAccount |-> TRUE],
    [networks |-> <<>>, activeCaip |-> "none", onSelectAccount |-> FALSE] }

\* InjectedAccountWithMeta as web3Accounts returns them
injected(address, source) == [address |-> address, source |-> source]
AccountLists ==
  { <<>>,
    <<injected("5Tom", "talisman")>>,
    <<injected("5Alice", "subwallet-js"), injected("5Bob", "subwallet-js"),
      injected("5Tom", "talisman")>> }
AllAccounts == CHOOSE l \in AccountLists : Len(l) = 3
\* the same, and a wallet with one account
MoreAccountLists == AccountLists \cup {<<injected("5Alice", "subwallet-js")>>}

\* AdapterBlueprint.ConnectParams: the connector id, and an address and a
\* chain id where the caller gives them
connectParams(id, address, chainId) == [id |-> id, address |-> address, chainId |-> chainId]
ConnectParams ==
  { connectParams("subwallet", "none", "none"),
    connectParams("subwallet", "5Bob", "hub"),
    connectParams("talisman", "none", "none") }

\* window.injectedWeb3[source]?.enable: the extensions that inject a provider
injectedWeb3 == {"subwallet-js"}

noParams == connectParams("none", "none", "none")
noResult == [id |-> "none", chainId |-> "none", address |-> "none", provider |-> "none"]

idleConn ==
  [pc |-> "idle", params |-> noParams,
   passed |-> FALSE,      \* went past the isConnecting check
   out |-> "none",        \* none (in flight), ok, failed, rejected
   err |-> "none",
   result |-> noResult,
   accounts |-> <<>>,     \* the accounts of the wallet source
   selected |-> "none",   \* selectedAccount.address
   promise |-> 0,         \* the web3Enable promise this call started or awaits
   sub |-> 0,             \* the subscription this call asked for
   extCalls |-> <<>>]     \* the extension calls this call made, in order

InitApiSide(F) ==
  /\ clients = <<>>
  /\ apiCache = [n \in NetIds |-> 0]
  /\ balanceCache = [k \in BalanceKeys |-> noEntry]
  /\ api = [a \in ApiCalls |-> idleCall]
  /\ now = 0
  /\ ticks = 0
  /\ drops = 0
  /\ failing \in F

\* the fields of a fresh adapter (adapter.ts:87-98) under one configuration
InitConnSide(E) ==
  /\ isConnecting = FALSE
  /\ extensionsEnabled = FALSE
  /\ enablePromise = 0
  /\ promises = <<>>
  /\ accountUnsubscribe = 0
  /\ subs = <<>>
  /\ connections = <<>>
  /\ connectors = <<>>
  /\ events = <<>>
  /\ conn = [c \in ConnectCalls |-> idleConn]
  /\ libs = "none"
  /\ warmups = <<>>
  /\ disconnects = 0
  /\ env \in E

\* a network descriptor: every list drawn from the URLs, webSocket lists up to
\* MaxWsUrls long and http lists up to MaxHttpUrls
SomeUrls == {wssA, wssB, httpsH}
UrlLists(len) == UNION {[1..k -> SomeUrls] : k \in 0..len}
RpcUrls ==
  [default : [webSocket : UrlLists(MaxWsUrls), http : UrlLists(MaxHttpUrls)],
   public : [webSocket : UrlLists(MaxWsUrls), http : UrlLists(MaxHttpUrls)]]

notResolved == [done |-> FALSE, urls |-> <<>>]

InitPureSide(R) ==
  /\ resolveIn \in R
  /\ resolveOut = notResolved

\* the endpoints of a network may fail for every caller; the wallet side idles
InitApi ==
  /\ InitPureSide({caipNetworks["hub"].rpcUrls})
  /\ InitApiSide({{}, {"hub"}, {"ksm"}})
  /\ InitConnSide({CHOOSE e \in Envs : e.activeCaip = "none" /\ e.networks # <<>>})

\* any configuration; the RPC side idles
Init ==
  /\ InitPureSide({caipNetworks["hub"].rpcUrls})
  /\ InitApiSide({{}})
  /\ InitConnSide(Envs)

Op(kind, url) == [op |-> kind, url |-> url]

\* cached.isConnected (adapter.ts:1393): "yes", "no", or the getter throws
isConnected(h) == clients[h].conn

\* new this.libs.WsProvider(wsUrl); this.libs.ApiPromise.create({ provider })
newClient(n, url, a) ==
  [net |-> n, url |-> url, by |-> a, st |-> "pending", conn |-> "no",
   disposed |-> FALSE, timedOut |-> FALSE]

\* the catch block of getBalance (adapter.ts:933-941):
\* params.caipNetwork?.nativeCurrency?.symbol || 'DOT'
degraded_hardcoded(n) == [balance |-> <<"0">>, symbol |-> "DOT", src |-> "degraded"]
degraded(n) ==
  [balance |-> <<"0">>,
   symbol |-> IF caipNetworks[n].symbol # "" THEN caipNetworks[n].symbol ELSE "DOT",
   src |-> "degraded"]

\* Where the caller of getApi goes on once getApi has returned or thrown.
afterGetApi(c) ==
  IF c.kind = "getBalance"
  THEN IF c.acq \in {"cached", "created"}
       THEN [c EXCEPT !.pc = "query"]
       ELSE [c EXCEPT !.pc = "done", !.bal = degraded(c.net)]
  ELSE [c EXCEPT !.pc = "done"]

\* throw lastError (adapter.ts:1460)
thrownWhenExhausted_generic(lastError) == [kind |-> "config", url |-> noUrl]
thrownWhenExhausted(lastError) == lastError

\* One turn of the for loop of getApi (adapter.ts:1424-1440): the transport and
\* the client of candidate i are created and the call awaits withTimeout; with
\* the candidates exhausted lastError is thrown (adapter.ts:1460).
tryCandidate(a, c, i, cl) ==
  IF i <= Len(c.urls)
  THEN /\ Len(cl) < MaxClients
       /\ clients' = Append(cl, newClient(c.net, c.urls[i], a))
       /\ api' = [api EXCEPT ![a] =
                    [c EXCEPT !.pc = "attempt", !.idx = i, !.cur = Len(cl) + 1,
                              !.ops = Append(c.ops, Op("open", c.urls[i]))]]
  ELSE /\ clients' = cl
       /\ api' = [api EXCEPT ![a] =
                    afterGetApi([c EXCEPT !.acq = "exhausted",
                                          !.err = thrownWhenExhausted(c.lastError),
                                          !.cur = 0])]

\* if (cached) ... if (cached.isConnected) return cached (adapter.ts:1389-1395)
cachedIsLive_unlessFalse(cached) == cached # 0 /\ isConnected(cached) # "no"
cachedIsLive(cached) == cached # 0 /\ isConnected(cached) = "yes"

\* this.apiCache.delete(String(caipNetwork.id)) (adapter.ts:1397, 1400)
cacheDelete(n) == [apiCache EXCEPT ![n] = 0]

\* if (wsUrls.length === 0) throw ... (adapter.ts:1407-1410)
noCandidates_unchecked(wsUrls) == FALSE
noCandidates(wsUrls) == wsUrls = <<>>

\* The head of getApi up to its first await (adapter.ts:1388-1410).
getApi(a, c) ==
  LET n == c.net
      cached == apiCache[n]
      wsUrls == resolveWsUrls(caipNetworks[n])
  IN IF cachedIsLive(cached)
     THEN /\ api' = [api EXCEPT ![a] =
                       afterGetApi([c EXCEPT !.found = "live", !.acq = "cached",
                                             !.handle = cached])]
          /\ UNCHANGED <<apiCache, clients>>
     ELSE LET c1 == [c EXCEPT !.found = IF cached = 0 THEN "empty"
                                        ELSE IF isConnected(cached) = "throws" THEN "throws"
                                        ELSE "dead",
                              !.stale = cached,
                              !.ops = IF cached = 0 THEN <<>> ELSE <<Op("evict", noUrl)>>,
                              !.urls = wsUrls]
          IN /\ apiCache' = (IF cached = 0 THEN apiCache ELSE cacheDelete(n))
             /\ IF noCandidates(wsUrls)
                THEN /\ api' = [api EXCEPT ![a] =
                                  afterGetApi([c1 EXCEPT !.acq = "config",
                                      !.err = [kind |-> "config", url |-> noUrl]])]
                     /\ UNCHANGED clients
                ELSE tryCandidate(a, c1, 1, clients)

\* Calls are issued in the order of their slots.
inFlight == {a \in ApiCalls : api[a].pc \notin {"idle", "done"}}
canIssue(a) ==
  /\ api[a].pc = "idle"
  /\ IF a = 1 THEN TRUE ELSE api[a - 1].pc # "idle"
  /\ Cardinality(inFlight) < MaxInFlight

\* getApi called directly: the warm-up of connect, sendTransaction.
GetApiCall(a, n) ==
  /\ canIssue(a)
  /\ getApi(a, [api[a] EXCEPT !.kind = "getApi", !.net = n])
  /\ UNCHANGED <<balanceCache, now, ticks, drops, failing, connVars, pureVars>>

\* this.apiCache.set(String(caipNetwork.id), api) (adapter.ts:1442)
cacheSet_clobber(n, h) == [m \in NetIds |-> IF m = n THEN h ELSE 0]
cacheSet(n, h) == [apiCache EXCEPT ![n] = h]

\* the candidate the for loop of getApi turns to after candidate i
nextCandidate_retry(i) == i
nextCandidate_skip(i) == i + 2
nextCandidate(i) == i + 1

\* (error as any)?.provider?.disconnect?.() (adapter.ts:1450): the transport of
\* a failed attempt is disconnected only when the error carries its provider.
disposedOnFailure(errorHasProvider) == errorHasProvider

\* The client of the current attempt is ready before the timer fires: it is
\* cached and returned (adapter.ts:1429-1443).
AttemptReady(a) ==
  LET c == api[a] IN
  /\ c.pc = "attempt"
  /\ clients[c.cur].st = "pending"
  /\ c.net \notin failing
  /\ clients' = [clients EXCEPT ![c.cur].st = "ready", ![c.cur].conn = "yes"]
  /\ apiCache' = cacheSet(c.net, c.cur)
  /\ api' = [api EXCEPT ![a] =
               afterGetApi([c EXCEPT !.acq = "created", !.handle = c.cur,
                                     !.ops = Append(c.ops, Op("cache", c.urls[c.idx]))])]
  /\ UNCHANGED <<balanceCache, now, ticks, drops, failing, connVars, pureVars>>

\* ApiPromise.create or isReady rejects before the timer fires (adapter.ts:1444-1455).
AttemptError(a, errorHasProvider) ==
  LET c == api[a]
      c1 == [c EXCEPT !.lastError = [kind |-> "connect", url |-> c.urls[c.idx]],
                      !.ops = Append(c.ops, Op("fail", c.urls[c.idx]))]
  IN /\ c.pc = "attempt"
     /\ clients[c.cur].st = "pending"
     /\ tryCandidate(a, c1, nextCandidate(c.idx),
                     [clients EXCEPT ![c.cur].st = "failed",
                                     ![c.cur].disposed = disposedOnFailure(errorHasProvider)])
     /\ UNCHANGED <<apiCache, balanceCache, now, ticks, drops, failing, connVars, pureVars>>

\* The timer of withTimeout fires first (adapter.ts:1413-1420): the attempt ends
\* with 'Connection timeout', an error without a provider, and the client it
\* created stays as it is.
AttemptTimeout(a) ==
  LET c == api[a]
      c1 == [c EXCEPT !.lastError = [kind |-> "timeout", url |-> c.urls[c.idx]],
                      !.ops = Append(c.ops, Op("timeout", c.urls[c.idx]))]
  IN /\ c.pc = "attempt"
     /\ clients[c.cur].st = "pending"
     /\ tryCandidate(a, c1, nextCandidate(c.idx),
                     [clients EXCEPT ![c.cur].timedOut = TRUE,
                                     ![c.cur].disposed = disposedOnFailure(FALSE)])
     /\ UNCHANGED <<apiCache, balanceCache, now, ticks, drops, failing, connVars, pureVars>>

\* The client of an attempt that timed out becomes ready later on: nothing of
\* getApi runs any more for it (the async function of adapter.ts:1430-1438 only
\* returns the client to a race that is already decided). lateSettle is the
\* cache after the race of withTimeout (adapter.ts:1413-1419) has dropped the
\* late result: apiCache.set (1442) is not reached.
lateSettle_cached(h) == cacheSet(clients[h].net, h)
lateSettle(h) == apiCache

LateReady(h) ==
  /\ h \in 1..Len(clients)
  /\ clients[h].st = "pending"
  /\ clients[h].timedOut
  /\ clients[h].net \notin failing
  /\ clients' = [clients EXCEPT ![h].st = "ready",
                                ![h].conn = IF clients[h].disposed THEN "no" ELSE "yes"]
  /\ apiCache' = lateSettle(h)
  /\ UNCHANGED <<balanceCache, api, now, ticks, drops, failing, connVars, pureVars>>

\* A ready client loses its connection: isConnected turns false, or throws.
ClientDrop(h, how) ==
  /\ drops < MaxDrops
  /\ h \in 1..Len(clients)
  /\ clients[h].st = "ready"
  /\ clients[h].conn = "yes"
  /\ clients' = [clients EXCEPT ![h].conn = how]
  /\ drops' = drops + 1
  /\ UNCHANGED <<apiCache, balanceCache, api, now, ticks, failing, connVars, pureVars>>

\* Date.now() advances.
Tick(d) ==
  /\ ticks < MaxTicks
  /\ now' = now + d
  /\ ticks' = ticks + 1
  /\ UNCHANGED <<clients, apiCache, balanceCache, api, drops, failing, connVars, pureVars>>

\* ------------------------------------------------------------- getBalance
balanceKey_networkOnly(n, addr) == <<caipNetworks[n].caipNetworkId, "5Alice">>
balanceKey(n, addr) == <<caipNetworks[n].caipNetworkId, addr>>

\* cached && Date.now() - cached.timestamp < CACHE_TTL (adapter.ts:873-874)
balanceFresh(entry) == entry # noEntry /\ now - entry.timestamp < CACHE_TTL

\* free - max(miscFrozen, feeFrozen) (adapter.ts:898-902)
transferable(data) ==
  data.free - (IF data.miscFrozen > data.feeFrozen THEN data.miscFrozen ELSE data.feeFrozen)

AccountData == {[free |-> 5, miscFrozen |-> 1, feeFrozen |-> 2]}
ChangingAccountData == AccountData \cup {[free |-> 9, miscFrozen |-> 3, feeFrozen |-> 0]}

\* An earlier getBalance of this network and address created the cached client
\* and returned, and that client is no longer connected.
droppedSinceRead(n, addr) ==
  \E b \in ApiCalls :
    /\ api[b].kind = "getBalance" /\ api[b].pc = "done"
    /\ api[b].net = n /\ api[b].addr = addr
    /\ api[b].acq = "created"
    /\ apiCache[n] = api[b].handle
    /\ isConnected(api[b].handle) # "yes"

\* getBalance up to its first await (adapter.ts:860-880)
GetBalanceCall(a, n, addr) ==
  LET entry == balanceCache[balanceKey(n, addr)]
      c == [api[a] EXCEPT !.kind = "getBalance", !.net = n, !.addr = addr,
                          !.afterDrop = droppedSinceRead(n, addr)]
  IN /\ canIssue(a)
     /\ api' = [api EXCEPT ![a] =
                  IF balanceFresh(entry)
                  THEN [c EXCEPT !.pc = "done",
                                 !.bal = [balance |-> entry.balance, symbol |-> entry.symbol,
                                          src |-> "cache"]]
                  ELSE [c EXCEPT !.pc = "libs"]]
     /\ UNCHANGED <<clients, apiCache, balanceCache, now, ticks, drops, failing, connVars, pureVars>>

\* await this.loadPolkadotLibs() is over: getApi is called (adapter.ts:880-882)
BalanceGetApi(a) ==
  /\ api[a].pc = "libs"
  /\ getApi(a, api[a])
  /\ UNCHANGED <<balanceCache, now, ticks, drops, failing, connVars, pureVars>>

\* api.query.system.account resolves: the balance is computed, stored and
\* returned (adapter.ts:894-932)
BalanceQueried(a, data) ==
  LET c == api[a]
      formatted == <<"formatBalance", transferable(data)>>
      symbol == caipNetworks[c.net].symbol
  IN /\ c.pc = "query"
     /\ balanceCache' = [balanceCache EXCEPT ![balanceKey(c.net, c.addr)] =
                           [balance |-> formatted, symbol |-> symbol, timestamp |-> now]]
     /\ api' = [api EXCEPT ![a] =
                  [c EXCEPT !.pc = "done",
                            !.bal = [balance |-> formatted, symbol |-> symbol,
                                     src |-> "chain"]]]
     /\ UNCHANGED <<clients, apiCache, now, ticks, drops, failing, connVars, pureVars>>

\* api.query.system.account rejects: the catch block answers (adapter.ts:933-941)
BalanceQueryFailed(a) ==
  LET c == api[a] IN
  /\ c.pc = "query"
  /\ api' = [api EXCEPT ![a] = [c EXCEPT !.pc = "done", !.bal = degraded(c.net)]]
  /\ UNCHANGED <<clients, apiCache, balanceCache, now, ticks, drops, failing, connVars, pureVars>>

TickSteps == {CACHE_TTL - 1, CACHE_TTL}

\* getApi alone: its direct callers, the endpoints and the clients
NextApi ==
  \/ \E a \in ApiCalls, n \in NetIds : GetApiCall(a, n)
  \/ \E a \in ApiCalls : AttemptReady(a)
  \/ \E a \in ApiCalls, errorHasProvider \in BOOLEAN : AttemptError(a, errorHasProvider)
  \/ \E a \in ApiCalls : AttemptTimeout(a)
  \/ \E h \in 1..Len(clients) : LateReady(h)
  \/ \E h \in 1..Len(clients), how \in {"no", "throws"} : ClientDrop(h, how)

SpecApi == InitApi /\ [][NextApi]_vars

\* getBalance on top of getApi, and the clock
NextBalance ==
  \/ \E a \in ApiCalls, n \in NetIds : GetBalanceCall(a, n, "5Alice")
  \/ \E a \in ApiCalls : BalanceGetApi(a)
  \/ \E a \in ApiCalls : AttemptReady(a)
  \/ \E a \in ApiCalls, errorHasProvider \in BOOLEAN : AttemptError(a, errorHasProvider)
  \/ \E a \in ApiCalls : AttemptTimeout(a)
  \/ \E a \in ApiCalls, data \in AccountData : BalanceQueried(a, data)
  \/ \E a \in ApiCalls : BalanceQueryFailed(a)
  \/ \E h \in 1..Len(clients), how \in {"no", "throws"} : ClientDrop(h, how)
  \/ \E d \in TickSteps : Tick(d)

SpecBalance == InitApi /\ [][NextBalance]_vars

\* the balance cache: reads of several addresses and networks over time, with
\* endpoints that answer or reject
NextTtl ==
  \/ \E a \in ApiCalls, n \in {"hub", "ksm"}, addr \in Addrs : GetBalanceCall(a, n, addr)
  \/ \E a \in ApiCalls : BalanceGetApi(a)
  \/ \E a \in ApiCalls : AttemptReady(a)
  \/ \E a \in ApiCalls : AttemptError(a, TRUE)
  \/ \E a \in ApiCalls, data \in ChangingAccountData : BalanceQueried(a, data)
  \/ \E a \in ApiCalls : BalanceQueryFailed(a)
  \/ \E d \in TickSteps : Tick(d)

SpecTtl == InitApi /\ [][NextTtl]_vars

\* ------------------------------------------------- sessions and connectors
\* AdapterBlueprint keeps one connection per connector id: the newest replaces
\* the one of the same connector.
deleteConnection(cs, connectorId) == SelectSeq(cs, LAMBDA s : s.connectorId # connectorId)
addConnection(cs, connection) == Append(deleteConnection(cs, connection.connectorId), connection)
clearConnections == <<>>
addConnector(ks, connector) == Append(SelectSeq(ks, LAMBDA k : k.id # connector.id), connector)

noAccount == [address |-> "none"]
noConnection == [connectorId |-> "none", chainId |-> "none", accounts |-> <<>>,
                 caipNetwork |-> "none", account |-> noAccount]

\* The session of the connector with its resolved account: the account of the
\* given address, or the first account when no address is given.
getConnection(address, connectorId) ==
  LET found == SelectSeq(connections, LAMBDA s : s.connectorId = connectorId)
      matching(s) == SelectSeq(s.accounts, LAMBDA acc : address = "none" \/ acc.address = address)
  IN IF found = <<>> THEN noConnection
     ELSE [connectorId |-> found[1].connectorId, chainId |-> found[1].chainId,
           accounts |-> found[1].accounts, caipNetwork |-> found[1].caipNetwork,
           account |-> IF matching(found[1]) = <<>> THEN noAccount
                       ELSE matching(found[1])[1]]

getWalletSource(id) ==
  CASE id = "subwallet" -> "subwallet-js"
    [] id = "polkadot" -> "polkadot-js"
    [] OTHER -> id

mapAccount(account) == [address |-> account.address, source |-> account.source]

accountChanged(address, chainId, connectorId) ==
  [type |-> "accountChanged", address |-> address, chainId |-> chainId,
   connector |-> connectorId]
disconnectEvent ==
  [type |-> "disconnect", address |-> "none", chainId |-> "none", connector |-> "none"]

\* ----------------------------------------------------------------- connect
\* the finally block of connect (adapter.ts:773-776)
guardAfterFinally_kept == isConnecting
guardAfterFinally == FALSE

\* the reuse path lets go of the guard before it awaits the provider
\* (adapter.ts:524)
guardOnReuse == FALSE

inFlightConnects == {c \in ConnectCalls : conn[c].pc \notin {"idle", "done"}}

\* calls are issued one after the other
canConnect(c) ==
  /\ conn[c].pc = "idle"
  /\ IF c = 1 THEN TRUE ELSE conn[c - 1].pc # "idle"

called(cr, name) == [cr EXCEPT !.extCalls = Append(@, name)]
thrown(cr, err) == [cr EXCEPT !.pc = "done", !.out = "failed", !.err = err]
returned(cr, chainId, address, provider) ==
  [cr EXCEPT !.pc = "done", !.out = "ok",
             !.result = [id |-> cr.params.id, chainId |-> chainId, address |-> address,
                         provider |-> provider]]

\* connector?.provider of this.connectors.find(c => c.id === params.id)
\* (adapter.ts:504, 546)
providerOf(ks, id) ==
  LET found == SelectSeq(ks, LAMBDA k : k.id = id)
  IN IF found = <<>> THEN "none" ELSE found[1].provider

\* connect up to its first suspension (adapter.ts:485-560, 199-237)
ConnectCall(c, p) ==
  /\ canConnect(c)
  /\ LET cr == [conn[c] EXCEPT !.params = p]
         existingConnection == getConnection(p.address, p.id)
         activeCaip == env.activeCaip
         resolvedCaipNetwork ==
           IF existingConnection.caipNetwork # "none" THEN existingConnection.caipNetwork
           ELSE IF activeCaip # "none" THEN activeCaip
           ELSE IF env.networks # <<>> THEN env.networks[1] ELSE "none"
         resolvedChainId ==
           IF resolvedCaipNetwork # "none" THEN resolvedCaipNetwork ELSE DEFAULT_CHAIN_ID
         stored == [connectorId |-> existingConnection.connectorId,
                    chainId |-> existingConnection.chainId,
                    accounts |-> existingConnection.accounts,
                    caipNetwork |-> resolvedCaipNetwork]
     IN IF isConnecting
        THEN \* 'Connection already in progress', through the finally block
             /\ conn' = [conn EXCEPT ![c] = thrown(cr, "inProgress")]
             /\ isConnecting' = guardAfterFinally
             /\ UNCHANGED <<connections, events, libs>>
        ELSE IF existingConnection.account # noAccount
        THEN \* the session of this connector is reused
             /\ connections' =
                  IF existingConnection.caipNetwork = "none" /\ resolvedCaipNetwork # "none"
                  THEN addConnection(connections, stored)
                  ELSE connections
             /\ events' = Append(events, accountChanged(existingConnection.account.address,
                                                        resolvedChainId, p.id))
             /\ IF getWalletSource(p.id) \in injectedWeb3
                THEN /\ conn' = [conn EXCEPT ![c] =
                           called([cr EXCEPT !.pc = "reuseEnable", !.passed = TRUE,
                                             !.selected = existingConnection.account.address,
                                             !.result = [noResult EXCEPT !.chainId = resolvedChainId]],
                                  "enable")]
                     /\ isConnecting' = guardOnReuse
                ELSE /\ conn' = [conn EXCEPT ![c] =
                           returned([cr EXCEPT !.passed = TRUE], resolvedChainId,
                                    existingConnection.account.address,
                                    providerOf(connectors, p.id))]
                     /\ isConnecting' = guardAfterFinally
             /\ UNCHANGED libs
        ELSE \* a fresh connection: loadPolkadotLibs starts the imports once
             /\ connections' = deleteConnection(connections, p.id)
             /\ isConnecting' = TRUE
             /\ IF libs = "none"
                THEN /\ libs' = "empty"
                     /\ conn' = [conn EXCEPT ![c] = [cr EXCEPT !.pc = "libsLoad", !.passed = TRUE]]
                ELSE /\ libs' = libs
                     /\ conn' = [conn EXCEPT ![c] = [cr EXCEPT !.pc = "libs", !.passed = TRUE]]
             /\ UNCHANGED events
  /\ UNCHANGED <<extensionsEnabled, enablePromise, promises, accountUnsubscribe, subs,
                 connectors, warmups, disconnects, env, apiVars, pureVars>>

\* one of the three dynamic imports of loadPolkadotLibs arrives
\* (adapter.ts:203-236)
nextImport(stage) ==
  CASE stage = "empty" -> "dapp"
    [] stage = "dapp" -> "api"
    [] stage = "api" -> "full"

LibsImported(c) ==
  /\ conn[c].pc = "libsLoad"
  /\ libs' = nextImport(libs)
  /\ conn' = [conn EXCEPT ![c].pc = IF libs' = "full" THEN "libs" ELSE "libsLoad"]
  /\ UNCHANGED <<isConnecting, extensionsEnabled, enablePromise, promises, accountUnsubscribe,
                 subs, connections, connectors, events, warmups, disconnects, env, apiVars, pureVars>>

\* ensureExtensionsEnabled once loadPolkadotLibs has returned
\* (adapter.ts:154-177); with extensions enabled connect goes on to
\* web3Accounts (adapter.ts:565)
EnsureEnabled(c) ==
  /\ conn[c].pc = "libs"
  /\ IF extensionsEnabled
     THEN /\ conn' = [conn EXCEPT ![c] = called([@ EXCEPT !.pc = "accounts"], "web3Accounts")]
          /\ UNCHANGED <<isConnecting, enablePromise, promises>>
     ELSE IF enablePromise # 0
     THEN /\ conn' = [conn EXCEPT ![c] = [@ EXCEPT !.pc = "enableWait", !.promise = enablePromise]]
          /\ UNCHANGED <<isConnecting, enablePromise, promises>>
     ELSE IF libs = "empty"
     THEN \* the imports another call started have not arrived: web3Enable is undefined
          /\ conn' = [conn EXCEPT ![c] = thrown(@, "notAFunction")]
          /\ isConnecting' = guardAfterFinally
          /\ UNCHANGED <<enablePromise, promises>>
     ELSE /\ promises' = Append(promises, "pending")
          /\ enablePromise' = Len(promises) + 1
          /\ conn' = [conn EXCEPT ![c] =
                        called([@ EXCEPT !.pc = "enabling", !.promise = Len(promises) + 1],
                               "web3Enable")]
          /\ UNCHANGED isConnecting
  /\ UNCHANGED <<extensionsEnabled, accountUnsubscribe, subs, connections, connectors, events,
                 libs, warmups, disconnects, env, apiVars, pureVars>>

\* web3Enable settles: the call that started it goes on first, then the calls
\* that await the same promise (adapter.ts:160-172, 179-193)
enableError(outcome) == IF outcome = "empty" THEN "noExtension" ELSE "enableRejected"

EnableSettled(c, outcome) ==
  /\ conn[c].pc = "enabling"
  /\ LET p == conn[c].promise
         waiters == {w \in ConnectCalls : conn[w].pc = "enableWait" /\ conn[w].promise = p}
         failed == IF outcome = "nonEmpty" THEN {}
                   ELSE IF outcome = "empty" THEN {c}
                   ELSE {c} \cup waiters
     IN /\ promises' = [promises EXCEPT ![p] = outcome]
        /\ extensionsEnabled' = (outcome = "nonEmpty")
        /\ enablePromise' = 0
        /\ conn' = [w \in ConnectCalls |->
                      IF w \notin {c} \cup waiters THEN conn[w]
                      ELSE IF w \in failed THEN thrown(conn[w], enableError(outcome))
                      ELSE called([conn[w] EXCEPT !.pc = "accounts"], "web3Accounts")]
        /\ isConnecting' = IF failed # {} THEN guardAfterFinally ELSE isConnecting
  /\ UNCHANGED <<accountUnsubscribe, subs, connections, connectors, events, libs, warmups,
                 disconnects, env, apiVars, pureVars>>

\* the accounts of the wallet source (adapter.ts:577-580, 259-261)
accountsOf_unfiltered(injectedAccounts, id) ==
  [i \in 1..Len(injectedAccounts) |-> mapAccount(injectedAccounts[i])]

accountsOf(injectedAccounts, id) ==
  LET own == SelectSeq(injectedAccounts, LAMBDA acc : acc.source = getWalletSource(id))
  IN [i \in 1..Len(own) |-> mapAccount(own[i])]

addresses(accounts) == {accounts[i].address : i \in 1..Len(accounts)}

\* Network resolution (adapter.ts:645-661): the active network, then the
\* chain id of the call, then the default; a chain id that is not configured
\* falls back to the first configured network.
resolveChainId(p) ==
  IF env.activeCaip # "none" THEN env.activeCaip
  ELSE IF p.chainId # "none" THEN p.chainId
  ELSE DEFAULT_CHAIN_ID

resolveCaipNetwork(resolvedChainId) ==
  IF resolvedChainId \in Range(env.networks) THEN resolvedChainId
  ELSE IF env.networks # <<>> THEN env.networks[1]
  ELSE "none"

\* connect from the selected account to the suspension on
\* web3AccountsSubscribe (adapter.ts:635-705, 243-255)
established(c, cr, accounts, selected) ==
  LET p == cr.params
      resolvedChainId == resolveChainId(p)
      caipNetwork == resolveCaipNetwork(resolvedChainId)
      connector == [id |-> p.id, accounts |-> accounts, chain |-> resolvedChainId,
                    provider |-> "empty", by |-> c]
      connection == [connectorId |-> p.id, chainId |-> resolvedChainId,
                     accounts |-> <<[address |-> selected]>>, caipNetwork |-> caipNetwork]
  IN IF caipNetwork = "none"
     THEN /\ conn' = [conn EXCEPT ![c] = thrown(cr, "noNetwork")]
          /\ isConnecting' = guardAfterFinally
          /\ UNCHANGED <<connectors, connections, events, subs, accountUnsubscribe>>
     ELSE /\ connectors' = addConnector(connectors, connector)
          /\ connections' = addConnection(connections, connection)
          /\ events' = Append(events, accountChanged(selected, resolvedChainId, p.id))
          /\ subs' = Append(IF accountUnsubscribe # 0
                            THEN [subs EXCEPT ![accountUnsubscribe].st = "released"]
                            ELSE subs,
                            [connectorId |-> p.id, st |-> "pending", seen |-> 0])
          /\ accountUnsubscribe' = 0
          /\ conn' = [conn EXCEPT ![c] =
                        called([cr EXCEPT !.pc = "subscribing", !.accounts = accounts,
                                          !.selected = selected, !.sub = Len(subs) + 1,
                                          !.result = [noResult EXCEPT !.chainId = resolvedChainId]],
                               "web3AccountsSubscribe")]
          /\ UNCHANGED isConnecting

\* accounts.find(a => a.address === params.address) || accounts[0]
\* (adapter.ts:598-599)
selectByAddress_strict(accounts, address) == address
selectByAddress(accounts, address) ==
  IF address \in addresses(accounts) THEN address ELSE accounts[1].address

\* web3Accounts returns (adapter.ts:565-633)
AccountsReturned(c, injectedAccounts) ==
  /\ conn[c].pc = "accounts"
  /\ LET cr == conn[c]
         accounts == accountsOf(injectedAccounts, cr.params.id)
     IN IF injectedAccounts = <<>> \/ accounts = <<>>
        THEN /\ conn' = [conn EXCEPT ![c] =
                           thrown(cr, IF injectedAccounts = <<>> THEN "noAccounts"
                                      ELSE "noAccountsForWallet")]
             /\ isConnecting' = guardAfterFinally
             /\ UNCHANGED <<connectors, connections, events, subs, accountUnsubscribe>>
        ELSE IF cr.params.address # "none"
        THEN established(c, cr, accounts, selectByAddress(accounts, cr.params.address))
        ELSE IF Len(accounts) > 1 /\ env.onSelectAccount
        THEN /\ conn' = [conn EXCEPT ![c] = [cr EXCEPT !.pc = "selecting", !.accounts = accounts]]
             /\ UNCHANGED <<isConnecting, connectors, connections, events, subs,
                            accountUnsubscribe>>
        ELSE established(c, cr, accounts, accounts[1].address)
  /\ UNCHANGED <<extensionsEnabled, enablePromise, promises, libs, warmups, disconnects, env,
                 apiVars, pureVars>>

\* web3Accounts rejects
AccountsRejected(c) ==
  /\ conn[c].pc = "accounts"
  /\ conn' = [conn EXCEPT ![c] = thrown(@, "accountsRejected")]
  /\ isConnecting' = guardAfterFinally
  /\ UNCHANGED <<extensionsEnabled, enablePromise, promises, accountUnsubscribe, subs,
                 connections, connectors, events, libs, warmups, disconnects, env, apiVars, pureVars>>

\* onSelectAccount settles: an address, or "reject" (adapter.ts:603-617)
Selections == {"5Alice", "5Bob", "5Eve", "reject"}

AccountSelected(c, choice) ==
  /\ conn[c].pc = "selecting"
  /\ IF choice \in addresses(conn[c].accounts)
     THEN established(c, conn[c], conn[c].accounts, choice)
     ELSE \* the callback rejected, or its answer is not one of the accounts
          /\ conn' = [conn EXCEPT ![c] =
                        thrown([@ EXCEPT !.selected = IF choice = "reject" THEN "none"
                                                      ELSE choice],
                               "selectionCancelled")]
          /\ isConnecting' = guardAfterFinally
          /\ UNCHANGED <<connectors, connections, events, subs, accountUnsubscribe>>
  /\ UNCHANGED <<extensionsEnabled, enablePromise, promises, libs, warmups, disconnects, env,
                 apiVars, pureVars>>

\* void this.getApi(caipNetwork) (adapter.ts:728-743): getApi runs up to its
\* first await inside connect, in the next free call slot; connect does not
\* wait for the rest, and a rejection goes to the catch handler of the promise
firstIdle == CHOOSE a \in ApiCalls : api[a].pc = "idle" /\ \A b \in 1..(a - 1) : api[b].pc # "idle"

warmup(n) ==
  /\ {a \in ApiCalls : api[a].pc = "idle"} # {}
  /\ warmups' = Append(warmups, n)
  /\ getApi(firstIdle, [api[firstIdle] EXCEPT !.kind = "getApi", !.net = n])
  /\ UNCHANGED <<balanceCache, now, ticks, drops, failing>>

\* the end of connect (adapter.ts:728-765) and its finally block
finished_firstAccount(c, cr, provider) ==
  /\ warmup(resolveCaipNetwork(cr.result.chainId))
  /\ conn' = [conn EXCEPT ![c] = returned(cr, cr.result.chainId, cr.accounts[1].address,
                                          provider)]
  /\ isConnecting' = guardAfterFinally

finished_awaitsWarmup(c, cr, provider) ==
  /\ warmup(resolveCaipNetwork(cr.result.chainId))
  /\ conn' = [conn EXCEPT ![c] =
                IF api'[firstIdle].acq = "config" THEN thrown(cr, "warmupFailed")
                ELSE returned(cr, cr.result.chainId, cr.selected, provider)]
  /\ isConnecting' = guardAfterFinally

finished(c, cr, provider) ==
  /\ warmup(resolveCaipNetwork(cr.result.chainId))
  /\ conn' = [conn EXCEPT ![c] = returned(cr, cr.result.chainId, cr.selected, provider)]
  /\ isConnecting' = guardAfterFinally

\* web3AccountsSubscribe settles (adapter.ts:255-298), then connect enables
\* the provider of the extension (adapter.ts:709-726)
Subscribed(c, ok) ==
  /\ conn[c].pc = "subscribing"
  /\ subs' = [subs EXCEPT ![conn[c].sub].st = IF ok THEN "active" ELSE "failed"]
  /\ accountUnsubscribe' = IF ok THEN conn[c].sub ELSE 0
  /\ IF getWalletSource(conn[c].params.id) \in injectedWeb3
     THEN /\ conn' = [conn EXCEPT ![c] = called([@ EXCEPT !.pc = "providerEnable"], "enable")]
          /\ UNCHANGED <<isConnecting, warmups, apiVars>>
     ELSE finished(c, conn[c], "empty")
  /\ UNCHANGED <<extensionsEnabled, enablePromise, promises, connections, connectors, events,
                 libs, disconnects, env, pureVars>>

\* ext.enable settles, either way (adapter.ts:714-725)
ProviderEnabled(c, ok) ==
  /\ conn[c].pc = "providerEnable"
  /\ connectors' = [k \in 1..Len(connectors) |->
                      IF ok /\ connectors[k].by = c
                      THEN [connectors[k] EXCEPT !.provider = "injected"]
                      ELSE connectors[k]]
  /\ finished(c, conn[c], IF ok THEN "injected" ELSE "empty")
  /\ UNCHANGED <<extensionsEnabled, enablePromise, promises, accountUnsubscribe, subs,
                 connections, events, libs, disconnects, env, pureVars>>

\* ext.enable of the reuse path settles, either way (adapter.ts:534-552)
ReuseEnabled_throws(c, ok) ==
  /\ conn[c].pc = "reuseEnable"
  /\ conn' = [conn EXCEPT ![c] =
                IF ok THEN returned(@, @.result.chainId, @.selected, "injected")
                ELSE thrown(@, "enableFailed")]
  /\ isConnecting' = guardAfterFinally
  /\ UNCHANGED <<extensionsEnabled, enablePromise, promises, accountUnsubscribe, subs,
                 connections, connectors, events, libs, warmups, disconnects, env, apiVars,
                 pureVars>>

ReuseEnabled(c, ok) ==
  /\ conn[c].pc = "reuseEnable"
  /\ conn' = [conn EXCEPT ![c] =
                returned(@, @.result.chainId, @.selected,
                         IF ok THEN "injected" ELSE providerOf(connectors, @.params.id))]
  /\ isConnecting' = guardAfterFinally
  /\ UNCHANGED <<extensionsEnabled, enablePromise, promises, accountUnsubscribe, subs,
                 connections, connectors, events, libs, warmups, disconnects, env, apiVars, pureVars>>

\* the sessions disconnect leaves (adapter.ts:787-806): deleteConnection(params.id)
\* with an id, clearConnections() without
remaining_none(id) == clearConnections
remaining(id) == IF id = "all" THEN clearConnections ELSE deleteConnection(connections, id)

\* return { connections: this.connections } (adapter.ts:824), at the end of the
\* step that is the whole call: disconnect has no await
disconnectResult == [connections |-> connections']

\* if (this.connections.length === 0) this.emit('disconnect') (adapter.ts:819-822)
emitsDisconnect_always(cs) == TRUE
emitsDisconnect(cs) == cs = <<>>

\* disconnect (adapter.ts:782-825): one wallet, or all of them with "all"
Disconnect(id) ==
  /\ disconnects < MaxDisconnects
  /\ disconnects' = disconnects + 1
  /\ connections' = remaining(id)
  /\ connectors' = IF id = "all" THEN <<>> ELSE SelectSeq(connectors, LAMBDA k : k.id # id)
  /\ IF connections' = <<>> \/ id = "all"
     THEN /\ subs' = IF accountUnsubscribe # 0
                     THEN [subs EXCEPT ![accountUnsubscribe].st = "released"]
                     ELSE subs
          /\ accountUnsubscribe' = 0
     ELSE UNCHANGED <<subs, accountUnsubscribe>>
  /\ events' = IF emitsDisconnect(connections') THEN Append(events, disconnectEvent) ELSE events
  /\ UNCHANGED <<isConnecting, extensionsEnabled, enablePromise, promises, conn, libs, warmups,
                 env, apiVars, pureVars>>

WalletIds == {p.id : p \in ConnectParams}

\* what the extension reports on the account feed
NotificationLists ==
  AccountLists \cup {<<injected("5Bob", "subwallet-js"), injected("5Tom", "talisman")>>}

\* { address: a.address, type: a.type } for every account (adapter.ts:275)
sessionAccounts_first(accounts) == <<[address |-> accounts[1].address]>>
sessionAccounts(accounts) == [k \in 1..Len(accounts) |-> [address |-> accounts[k].address]]

\* this.connectors.find(c => c.id === connectorId) (adapter.ts:286)
connectorOf(connectorId) ==
  IF \E k \in 1..Len(connectors) : connectors[k].id = connectorId THEN connectorId ELSE "none"

\* the callback handed to web3AccountsSubscribe runs on a notification of an
\* active subscription (adapter.ts:256-290); it has no await
AccountsNotified(i, injectedAccounts) ==
  /\ i \in 1..Len(subs)
  /\ subs[i].st = "active"
  /\ subs[i].seen < MaxNotifications
  /\ LET connectorId == subs[i].connectorId
         accounts == accountsOf(injectedAccounts, connectorId)
         found == SelectSeq(connections, LAMBDA s : s.connectorId = connectorId)
     IN /\ subs' = [subs EXCEPT ![i].seen = @ + 1]
        /\ IF accounts = <<>> \/ found = <<>>
           THEN UNCHANGED <<connections, events>>
           ELSE /\ connections' =
                     addConnection(connections,
                                   [found[1] EXCEPT !.accounts = sessionAccounts(accounts)])
                /\ events' = Append(events, accountChanged(accounts[1].address,
                                                           found[1].caipNetwork,
                                                           connectorOf(connectorId)))
  /\ UNCHANGED <<isConnecting, extensionsEnabled, enablePromise, promises, accountUnsubscribe,
                 connectors, conn, libs, warmups, disconnects, env, apiVars, pureVars>>

\* the connection lifecycle: connect calls, the extension's answers, disconnect
Next ==
  \/ \E c \in ConnectCalls, p \in ConnectParams : ConnectCall(c, p)
  \/ \E c \in ConnectCalls : LibsImported(c)
  \/ \E c \in ConnectCalls : EnsureEnabled(c)
  \/ \E c \in ConnectCalls, outcome \in {"nonEmpty", "empty", "rejected"} : EnableSettled(c, outcome)
  \/ \E c \in ConnectCalls, injectedAccounts \in AccountLists : AccountsReturned(c, injectedAccounts)
  \/ \E c \in ConnectCalls : AccountsRejected(c)
  \/ \E c \in ConnectCalls, choice \in Selections : AccountSelected(c, choice)
  \/ \E c \in ConnectCalls, ok \in BOOLEAN : Subscribed(c, ok)
  \/ \E c \in ConnectCalls, ok \in BOOLEAN : ProviderEnabled(c, ok)
  \/ \E c \in ConnectCalls, ok \in BOOLEAN : ReuseEnabled(c, ok)
  \/ \E id \in WalletIds \cup {"all"} : Disconnect(id)

Spec == Init /\ [][Next]_vars

\* every external call returns: the extension answers, the imports arrive
Settles ==
  \/ \E c \in ConnectCalls : LibsImported(c)
  \/ \E c \in ConnectCalls : EnsureEnabled(c)
  \/ \E c \in ConnectCalls, outcome \in {"nonEmpty", "empty", "rejected"} : EnableSettled(c, outcome)
  \/ \E c \in ConnectCalls, injectedAccounts \in AccountLists : AccountsReturned(c, injectedAccounts)
  \/ \E c \in ConnectCalls : AccountsRejected(c)
  \/ \E c \in ConnectCalls, choice \in Selections : AccountSelected(c, choice)
  \/ \E c \in ConnectCalls, ok \in BOOLEAN : Subscribed(c, ok)
  \/ \E c \in ConnectCalls, ok \in BOOLEAN : ProviderEnabled(c, ok)
  \/ \E c \in ConnectCalls, ok \in BOOLEAN : ReuseEnabled(c, ok)

\* connect calls alone, each external call returning in the end
NextConnect ==
  \/ \E c \in ConnectCalls, p \in ConnectParams : ConnectCall(c, p)
  \/ Settles

SpecFair == Init /\ [][NextConnect]_vars /\ WF_vars(Settles)

\* fresh connects up to the stored session: every account list, every answer
\* of the selection callback; the extension is there and answers
NextSelect ==
  \/ \E c \in ConnectCalls, p \in ConnectParams : ConnectCall(c, p)
  \/ \E c \in ConnectCalls : LibsImported(c)
  \/ \E c \in ConnectCalls : EnsureEnabled(c)
  \/ \E c \in ConnectCalls : EnableSettled(c, "nonEmpty")
  \/ \E c \in ConnectCalls, injectedAccounts \in MoreAccountLists :
        AccountsReturned(c, injectedAccounts)
  \/ \E c \in ConnectCalls, choice \in Selections : AccountSelected(c, choice)
  \/ \E c \in ConnectCalls : Subscribed(c, TRUE)
  \/ \E c \in ConnectCalls : ProviderEnabled(c, TRUE)
  \/ \E c \in ConnectCalls : ReuseEnabled(c, TRUE)

SpecSelect == Init /\ [][NextSelect]_vars

\* one configuration: two networks, no active one, no selection callback
InitNotify ==
  /\ InitPureSide({caipNetworks["hub"].rpcUrls})
  /\ InitApiSide({{}})
  /\ InitConnSide({[networks |-> <<"hub", "ksm">>, activeCaip |-> "none",
                     onSelectAccount |-> FALSE]})

\* connects, disconnects and the account feed of the extension
NextNotify ==
  \/ \E c \in ConnectCalls, id \in WalletIds : ConnectCall(c, connectParams(id, "none", "none"))
  \/ \E c \in ConnectCalls : LibsImported(c)
  \/ \E c \in ConnectCalls : EnsureEnabled(c)
  \/ \E c \in ConnectCalls : EnableSettled(c, "nonEmpty")
  \/ \E c \in ConnectCalls : AccountsReturned(c, AllAccounts)
  \/ \E c \in ConnectCalls, ok \in BOOLEAN : Subscribed(c, ok)
  \/ \E c \in ConnectCalls : ProviderEnabled(c, TRUE)
  \/ \E c \in ConnectCalls : ReuseEnabled(c, TRUE)
  \/ \E id \in WalletIds \cup {"all"} : Disconnect(id)
  \/ \E i \in 1..Len(subs), injectedAccounts \in NotificationLists :
        AccountsNotified(i, injectedAccounts)

SpecNotify == InitNotify /\ [][NextNotify]_vars

\* resetAdapterState (adapter.ts:1292-1314)
ResetAdapterState ==
  /\ subs' = IF accountUnsubscribe # 0
             THEN [subs EXCEPT ![accountUnsubscribe].st = "released"]
             ELSE subs
  /\ accountUnsubscribe' = 0
  /\ isConnecting' = FALSE
  /\ enablePromise' = 0
  /\ apiCache' = [n \in NetIds |-> 0]
  /\ balanceCache' = [k \in BalanceKeys |-> noEntry]
  /\ connections' = clearConnections
  /\ connectors' = <<>>
  /\ UNCHANGED <<extensionsEnabled, promises, events, conn, libs, warmups, disconnects, env,
                 clients, api, now, ticks, drops, failing, pureVars>>

\* connects of one wallet with the reset the application may call at any time
NextReset ==
  \/ \E c \in ConnectCalls : ConnectCall(c, connectParams("subwallet", "none", "none"))
  \/ \E c \in ConnectCalls : LibsImported(c)
  \/ \E c \in ConnectCalls : EnsureEnabled(c)
  \/ \E c \in ConnectCalls, outcome \in {"nonEmpty", "empty", "rejected"} : EnableSettled(c, outcome)
  \/ \E c \in ConnectCalls, injectedAccounts \in AccountLists : AccountsReturned(c, injectedAccounts)
  \/ \E c \in ConnectCalls : AccountSelected(c, "5Alice")
  \/ \E c \in ConnectCalls, ok \in BOOLEAN : Subscribed(c, ok)
  \/ \E c \in ConnectCalls : ProviderEnabled(c, TRUE)
  \/ \E c \in ConnectCalls : ReuseEnabled(c, TRUE)
  \/ ResetAdapterState

SpecReset == Init /\ [][NextReset]_vars

\* ------------------------------------------------ the claims about connect
\* the attempts past the isConnecting check that have neither returned nor thrown
pastGuard == {c \in ConnectCalls : conn[c].passed /\ conn[c].out = "none"}

issuedNow(c) == conn[c].pc = "idle" /\ conn'[c].pc # "idle"
finishedNow(c) == conn[c].pc # "done" /\ conn'[c].pc = "done"

\* C1: at any time at most one connect attempt is past the ConnectGuard check
\* and not yet finished, whatever the interleaving of the connect calls.
C1_OneAttemptPastGuard == Cardinality(pastGuard) <= 1

\* C2: a connect call issued while another attempt is in flight is rejected at
\* once with 'Connection already in progress', having made no extension call
\* and having changed no session, no connector and no subscription.
C2_RejectedStep ==
  \A c \in ConnectCalls :
    (issuedNow(c) /\ inFlightConnects # {}) =>
      /\ conn'[c].pc = "done"
      /\ conn'[c].out = "failed"
      /\ conn'[c].err = "inProgress"
      /\ conn'[c].extCalls = <<>>
      /\ UNCHANGED <<connections, connectors, subs, accountUnsubscribe>>

C2_RejectedWhileInFlight == [][C2_RejectedStep]_vars

\* C3: when an attempt that passed the guard finishes, with a result or with
\* any error, the guard is clear; a connect issued while no attempt is in
\* flight is not rejected by the guard; and when every external call returns,
\* a guard that is set is cleared eventually.
C3_ClearedStep ==
  \A c \in ConnectCalls :
    /\ (finishedNow(c) /\ conn'[c].passed) => ~isConnecting'
    /\ (issuedNow(c) /\ inFlightConnects = {}) => conn'[c].err # "inProgress"

C3_GuardCleared == [][C3_ClearedStep]_vars /\ (isConnecting ~> ~isConnecting)

C3_Witness ==
  \E c \in ConnectCalls, d \in ConnectCalls :
    /\ c < d
    /\ conn[c].passed /\ conn[c].out = "failed" /\ conn[c].err = "selectionCancelled"
    /\ conn[d].passed /\ conn[d].out = "ok"
    /\ inFlightConnects = {}
    /\ ~isConnecting

\* ------------------------------------------------- the claims about getApi
\* the URLs of the transports a call opened, in the order it opened them
RECURSIVE opened(_)
opened(ops) ==
  IF ops = <<>> THEN <<>>
  ELSE IF Head(ops).op = "open" THEN <<Head(ops).url>> \o opened(Tail(ops))
  ELSE opened(Tail(ops))

candidates(n) == resolveWsUrls(caipNetworks[n])

\* the step in which call a runs the head of getApi
getApiHead(a) ==
  /\ api[a].acq = "none"
  /\ api[a].ops = <<>>
  /\ \/ api[a].pc = "idle" /\ api'[a].kind = "getApi"
     \/ api[a].pc = "libs" /\ api'[a].pc # "libs"

\* the step in which getApi returns to, or throws at, the caller of call a
getApiEnds(a) == api[a].acq = "none" /\ api'[a].acq # "none"

\* C4: when candidate k is the first to succeed, getApi has opened exactly the
\* candidates 1..k, each once and in the resolver's order, every one before k
\* has failed or timed out, it returns the client built from candidate k, the
\* cache holds exactly that client as getApi returns, and nothing is opened
\* after that.
C4_FirstSuccessStep(a) ==
  LET c == api'[a]
      k == c.idx
      urls == candidates(c.net)
  IN (getApiEnds(a) /\ c.acq = "created") =>
       /\ k \in 1..Len(urls)
       /\ opened(c.ops) = SubSeq(urls, 1, k)
       /\ Len(c.ops) = 2 * k + (IF c.stale = 0 THEN 0 ELSE 1)
       /\ c.ops[Len(c.ops)] = Op("cache", urls[k])
       /\ c.handle \in 1..Len(clients')
       /\ clients'[c.handle].url = urls[k]
       /\ clients'[c.handle].net = c.net
       /\ clients'[c.handle].by = a
       /\ clients'[c.handle].st = "ready"
       /\ apiCache'[c.net] = c.handle
       /\ \A h \in 1..Len(clients') :
            (h # c.handle /\ clients'[h].by = a)
              => (clients'[h].st = "failed" \/ clients'[h].timedOut)

C4_NothingAfter(a) ==
  api[a].acq # "none" =>
    /\ api'[a].ops = api[a].ops
    /\ api'[a].handle = api[a].handle
    /\ api'[a].acq = api[a].acq

C4_FirstSuccess ==
  [][\A a \in ApiCalls : C4_FirstSuccessStep(a) /\ C4_NothingAfter(a)]_vars

\* C4 witness: on an empty cache the third of three candidates was the first
\* to succeed
C4_Witness ==
  \E a \in ApiCalls :
    /\ api[a].acq = "created"
    /\ api[a].found = "empty"
    /\ api[a].idx = 3
    /\ Len(candidates(api[a].net)) = 3
    /\ apiCache[api[a].net] = api[a].handle

\* C5: when every candidate of a network fails, getApi has opened each of the
\* N candidates once and in the resolver's order, throws the error of the last
\* attempt, which is not the 'No WebSocket RPC URL configured' error, returns no
\* client and stores nothing; the cache of a network whose endpoints fail for
\* every caller holds no client.
C5_AllFailStep(a) ==
  LET c == api'[a]
      urls == candidates(c.net)
      N == Len(urls)
  IN (getApiEnds(a) /\ c.acq = "exhausted") =>
       /\ N >= 1
       /\ opened(c.ops) = urls
       /\ c.ops[Len(c.ops)].op \in {"fail", "timeout"}
       /\ c.ops[Len(c.ops)].url = urls[N]
       /\ c.err = c.lastError
       /\ c.err.url = urls[N]
       /\ c.err.kind \in {"connect", "timeout"}
       /\ c.err.kind # "config"
       /\ c.handle = 0
       /\ apiCache' = apiCache
       /\ \A h \in 1..Len(clients') : clients'[h].by = a => apiCache'[c.net] # h
       /\ c.net \in failing => apiCache'[c.net] = 0

C5_AllFail == [][\A a \in ApiCalls : C5_AllFailStep(a)]_vars

\* C5 witness: the three candidates of a network whose endpoints all fail
\* were tried and getApi threw
C5_Witness ==
  \E a \in ApiCalls :
    /\ api[a].acq = "exhausted"
    /\ api[a].net \in failing
    /\ Len(opened(api[a].ops)) = 3
    /\ api[a].err.kind = "timeout"
    /\ apiCache[api[a].net] = 0

\* C6: for a network without candidates getApi throws the configuration error
\* in its head: no transport and no client is created and the cache is left
\* as it is.
C6_NoCandidatesStep(a) ==
  (getApiHead(a) /\ candidates(api'[a].net) = <<>>) =>
    /\ api'[a].acq = "config"
    /\ api'[a].err = [kind |-> "config", url |-> noUrl]
    /\ api'[a].ops = <<>>
    /\ api'[a].handle = 0
    /\ clients' = clients
    /\ apiCache' = apiCache

C6_NoCandidates == [][\A a \in ApiCalls : C6_NoCandidatesStep(a)]_vars

\* C6 witness: getApi threw the configuration error after other clients existed
C6_Witness ==
  \E a \in ApiCalls :
    /\ api[a].acq = "config"
    /\ api[a].net = "bare"
    /\ Len(clients) > 0

\* C7: a getApi issued while the cache holds a live client of its network
\* returns that client without opening anything, and a step changes the cache
\* entry of a network only on behalf of a call for that network.
C7_CachedStep(a) ==
  LET n == api'[a].net IN
  (getApiHead(a) /\ apiCache[n] # 0 /\ clients[apiCache[n]].conn = "yes") =>
    /\ api'[a].acq = "cached"
    /\ api'[a].handle = apiCache[n]
    /\ api'[a].ops = <<>>
    /\ clients' = clients
    /\ apiCache' = apiCache

C7_OtherNetworksKept ==
  \A m \in NetIds :
    apiCache'[m] # apiCache[m] =>
      \E a \in ApiCalls : api'[a] # api[a] /\ api'[a].net = m

C7_CacheReuse == [][(\A a \in ApiCalls : C7_CachedStep(a)) /\ C7_OtherNetworksKept]_vars

\* C7 witness: hub was acquired, then ksm, then hub again from the cache
C7_Witness ==
  /\ api[1].net = "hub" /\ api[1].acq = "created"
  /\ api[2].net = "ksm" /\ api[2].acq = "created" /\ api[2].found = "empty"
  /\ api[3].net = "hub" /\ api[3].acq = "cached"
  /\ api[3].handle = api[1].handle
  /\ apiCache["ksm"] = api[2].handle

\* C8: a getApi that finds a cached client which is not connected, or whose
\* isConnected throws, removes it from the cache before it opens anything,
\* never returns it, and tries the candidates of the resolver from the first on.
C8_EvictStep(a) ==
  LET n == api'[a].net
      c == api'[a]
  IN (getApiHead(a) /\ apiCache[n] # 0 /\ clients[apiCache[n]].conn # "yes") =>
       /\ c.found = (IF clients[apiCache[n]].conn = "throws" THEN "throws" ELSE "dead")
       /\ c.stale = apiCache[n]
       /\ apiCache'[n] = 0
       /\ c.ops = <<Op("evict", noUrl), Op("open", candidates(n)[1])>>
       /\ c.pc = "attempt" /\ c.idx = 1

C8_StaleNeverReturned(a) ==
  LET c == api'[a] IN
  c.stale # 0 =>
    /\ c.handle # c.stale
    /\ c.ops[1].op = "evict"
    /\ \A i \in 2..Len(c.ops) : c.ops[i].op # "evict"
    /\ opened(c.ops) = SubSeq(candidates(c.net), 1, Len(opened(c.ops)))

C8_Invalidation ==
  [][\A a \in ApiCalls : C8_EvictStep(a) /\ C8_StaleNeverReturned(a)]_vars

\* C8 witness: a getApi found a cached client whose isConnected throws and
\* returned a new one
C8_Witness ==
  \E a \in ApiCalls :
    /\ api[a].found = "throws"
    /\ api[a].acq = "created"
    /\ api[a].handle # api[a].stale
    /\ apiCache[api[a].net] = api[a].handle

\* C9 as claimed: a getBalance issued after the client of an earlier getBalance
\* of the same address and network was disconnected creates a new client.
C9_ReconnectsAfterDrop ==
  \A a \in ApiCalls :
    (api[a].kind = "getBalance" /\ api[a].pc = "done" /\ api[a].afterDrop)
      => opened(api[a].ops) # <<>>

\* C10 as claimed: at most one live, undisposed client per network exists.
liveClients(n) ==
  {h \in 1..Len(clients) :
     /\ clients[h].net = n
     /\ clients[h].st = "ready"
     /\ clients[h].conn = "yes"
     /\ ~clients[h].disposed}

C10_OneLiveClient == \A n \in NetIds : Cardinality(liveClients(n)) <= 1

\* ------------------------------------------- the claims about the transports
\* the transports a call opened whose disconnect was never invoked
openTransports(a) == {h \in 1..Len(clients) : clients[h].by = a /\ ~clients[h].disposed}

\* C11: within one getApi call the transport of a failed or timed-out attempt
\* is disconnected before the next candidate's transport is opened, so at most
\* one transport opened by the call is open at any time.
C11_OneOpenTransport == \A a \in ApiCalls : Cardinality(openTransports(a)) <= 1

\* -------------------------------------------------- the claims about getBalance
getBalanceDone(a) == api[a].kind = "getBalance" /\ api[a].pc = "done"

\* C12: a getBalance whose client acquisition fails on every candidate (or has
\* no candidate), or whose account query fails, does not throw: it returns
\* balance '0' with the native currency symbol configured for the network.
C12_Degrades ==
  \A a \in ApiCalls :
    getBalanceDone(a) =>
      /\ api[a].bal # noBalance
      /\ (api[a].acq \in {"config", "exhausted"} \/ api[a].bal.src = "degraded") =>
            /\ api[a].bal.balance = <<"0">>
            /\ api[a].bal.symbol = caipNetworks[api[a].net].symbol
            /\ api[a].bal.src = "degraded"

C12_Witness ==
  \E a \in ApiCalls, b \in ApiCalls :
    /\ getBalanceDone(a) /\ api[a].net = "ksm" /\ api[a].acq = "exhausted"
    /\ api[a].bal.symbol = "KSM" /\ api[a].bal.balance = <<"0">>
    /\ getBalanceDone(b) /\ api[b].acq = "created" /\ api[b].bal.src = "degraded"
    /\ api[b].bal.balance = <<"0">>

\* the entry stored for the network and the address of a call
entryOf(c) == balanceCache[<<caipNetworks[c.net].caipNetworkId, c.addr>>]
issuedBalance(a) == api[a].pc = "idle" /\ api'[a].pc # "idle" /\ api'[a].kind = "getBalance"
returnedBalance(a) == api[a].kind = "getBalance" /\ api[a].pc # "done" /\ api'[a].pc = "done"

\* A read answers from the cache exactly when the entry of its own network and
\* address is younger than the TTL; it then returns that entry and neither
\* acquires a client nor queries the chain. Otherwise it goes on to acquire.
C13_ReadStep ==
  \A a \in ApiCalls :
    issuedBalance(a) =>
      LET entry == entryOf(api'[a])
          young == entry.timestamp >= 0 /\ now - entry.timestamp < 10000
      IN /\ young <=> (api'[a].pc = "done" /\ api'[a].bal.src = "cache")
         /\ young => /\ api'[a].bal.balance = entry.balance
                     /\ api'[a].bal.symbol = entry.symbol
                     /\ api'[a].acq = "none" /\ api'[a].ops = <<>>
                     /\ UNCHANGED <<clients, apiCache, balanceCache>>
         /\ ~young => api'[a].pc = "libs"

\* a read that went to the chain and got the balance replaces the entry of
\* its own key and of no other
C13_ReplacedStep ==
  \A a \in ApiCalls :
    (returnedBalance(a) /\ api'[a].bal.src = "chain") =>
      \A k \in BalanceKeys :
        balanceCache'[k] =
          IF k = <<caipNetworks[api[a].net].caipNetworkId, api[a].addr>>
          THEN [balance |-> api'[a].bal.balance, symbol |-> api'[a].bal.symbol,
                timestamp |-> now]
          ELSE balanceCache[k]

\* a read that went to the chain and failed leaves every entry as it was
C13_KeptStep ==
  \A a \in ApiCalls :
    (returnedBalance(a) /\ api'[a].bal.src = "degraded") => UNCHANGED balanceCache

\* every read that did not answer from the cache has replaced its entry when
\* it returns
C13_AlwaysReplacedStep ==
  \A a \in ApiCalls :
    (returnedBalance(a) /\ api[a].pc # "idle") =>
      (entryOf(api[a]))' = [balance |-> api'[a].bal.balance, symbol |-> api'[a].bal.symbol,
                            timestamp |-> now]

\* C13 (as stated): a read returns the stored entry, with no acquisition and
\* no query, exactly when the entry of the same key is younger than the TTL;
\* at age >= TTL the value is recomputed and the entry replaced; an entry is
\* never returned for another network or address.
C13_TtlAsStated == [][C13_ReadStep /\ C13_AlwaysReplacedStep]_vars

\* C13 (amended): as above, but the entry is replaced when the recomputation
\* succeeds; when the acquisition or the query fails the read returns the
\* degraded value and the entries stay as they were.
C13_Ttl == [][C13_ReadStep /\ C13_ReplacedStep /\ C13_KeptStep]_vars

C13_Witness ==
  \E a \in ApiCalls, b \in ApiCalls, c \in ApiCalls :
    /\ a < b /\ b < c
    /\ getBalanceDone(a) /\ getBalanceDone(b) /\ getBalanceDone(c)
    /\ api[a].net = api[b].net /\ api[a].addr = api[b].addr
    /\ api[a].bal.src = "chain" /\ api[b].bal.src = "chain"
    /\ api[a].bal.balance # api[b].bal.balance
    /\ entryOf(api[b]).timestamp = CACHE_TTL
    /\ entryOf(api[b]).balance = api[b].bal.balance
    /\ api[c].bal.src = "cache" /\ api[c].net = api[b].net /\ api[c].addr = api[b].addr
    /\ api[c].bal.balance = api[b].bal.balance
    /\ entryOf([net |-> api[b].net, addr |-> "5Bob"]) # entryOf(api[b])

\* ------------------------------------------------------------ resolveWsUrls
\* resolveWsUrls applied to a network descriptor (adapter.ts:1355-1383)
Resolve ==
  /\ ~resolveOut.done
  /\ resolveOut' = [done |-> TRUE, urls |-> resolveWsUrls([rpcUrls |-> resolveIn])]
  /\ UNCHANGED <<resolveIn, apiVars, connVars>>

\* any network descriptor; the adapter idles
InitResolve ==
  /\ InitPureSide(RpcUrls)
  /\ InitApiSide({{}})
  /\ InitConnSide({CHOOSE e \in Envs : e.activeCaip = "none" /\ e.networks # <<>>})

SpecResolve == InitResolve /\ [][Resolve]_vars

\* first-occurrence de-duplication of a list
RECURSIVE dedupe(_)
dedupe(list) ==
  IF list = <<>> THEN <<>>
  ELSE LET front == dedupe(SubSeq(list, 1, Len(list) - 1))
           last == list[Len(list)]
       IN IF last \in Range(front) THEN front ELSE Append(front, last)

noDuplicates(list) == \A i, j \in 1..Len(list) : list[i] = list[j] => i = j

wssOnly(list) == SelectSeq(list, LAMBDA u : u[1] = "wss://")

\* C14: for every network descriptor resolveWsUrls returns a list without
\* duplicates, equal to the first-occurrence de-duplication of the default
\* webSocket list, the public webSocket list and the wss:// entries of the
\* default and public http lists, in this order.
C14_Deduplicated ==
  resolveOut.done =>
    /\ noDuplicates(resolveOut.urls)
    /\ resolveOut.urls =
         dedupe(resolveIn.default.webSocket \o resolveIn.public.webSocket
                \o wssOnly(resolveIn.default.http) \o wssOnly(resolveIn.public.http))

httpEntries == Range(resolveIn.default.http) \cup Range(resolveIn.public.http)
webSocketEntries == Range(resolveIn.default.webSocket) \cup Range(resolveIn.public.webSocket)

\* C15 (as stated): an endpoint filed under an http list appears in the output
\* if and only if its text starts with wss://; an http or https entry of an
\* http list never appears in the output.
C15_SchemeFilterAsStated ==
  resolveOut.done =>
    \A u \in httpEntries : u \in Range(resolveOut.urls) <=> u[1] = "wss://"

\* C15 (amended): an endpoint filed under an http list and under no webSocket
\* list appears in the output if and only if its text starts with wss://; the
\* webSocket lists are taken as they are, whatever the scheme, so an http or
\* https entry appears exactly when a webSocket list holds it too.
C15_SchemeFilter ==
  resolveOut.done =>
    \A u \in httpEntries :
      u \in Range(resolveOut.urls) <=> (u[1] = "wss://" \/ u \in webSocketEntries)

C15_Witness ==
  /\ resolveOut.done
  /\ resolveIn.default.http = <<wssB>> /\ resolveIn.public.http = <<httpsH>>
  /\ webSocketEntries = {wssA}
  /\ resolveOut.urls = <<wssA, wssB>>

\* ------------------------------------------------ the claims about sessions
\* the sessions of a connector that hold the account asked for (any account
\* when no address is asked for)
sessionsWithAccount(p) ==
  {i \in 1..Len(connections) :
     /\ connections[i].connectorId = p.id
     /\ \E k \in 1..Len(connections[i].accounts) :
          p.address \in {"none", connections[i].accounts[k].address}}

storedAddress(p) ==
  LET session == connections[CHOOSE i \in sessionsWithAccount(p) : TRUE]
  IN IF p.address = "none" THEN session.accounts[1].address ELSE p.address

accountLists(cs) == [i \in 1..Len(cs) |-> <<cs[i].connectorId, cs[i].accounts>>]

\* a connect that passes the guard and finds a session with a resolved account
C16_CallStep ==
  \A c \in ConnectCalls :
    (issuedNow(c) /\ ~isConnecting /\ sessionsWithAccount(conn'[c].params) # {}) =>
      LET address == storedAddress(conn'[c].params) IN
      /\ Len(events') = Len(events) + 1
      /\ events'[Len(events')].type = "accountChanged"
      /\ events'[Len(events')].address = address
      /\ SubSeq(events', 1, Len(events)) = events
      /\ conn'[c].extCalls \in {<<>>, <<"enable">>}
      /\ accountLists(connections') = accountLists(connections)
      /\ UNCHANGED <<subs, accountUnsubscribe, extensionsEnabled, enablePromise, promises>>
      /\ IF conn'[c].pc = "done"
         THEN conn'[c].out = "ok" /\ conn'[c].result.address = address
         ELSE conn'[c].pc = "reuseEnable" /\ conn'[c].selected = address

\* the provider enable of such a connect settles, with a provider or an error
C16_ReturnStep ==
  \A c \in ConnectCalls :
    (conn[c].pc = "reuseEnable" /\ conn'[c] # conn[c]) =>
      /\ conn'[c].pc = "done" /\ conn'[c].out = "ok"
      /\ conn'[c].result.address = conn[c].selected
      /\ conn'[c].extCalls = <<"enable">>
      /\ UNCHANGED <<events, connections, subs, accountUnsubscribe>>

\* C16: a connect for a source that has a session with a resolved account
\* emits exactly one accountChanged with the stored address, returns that
\* address, calls none of web3Enable, web3Accounts, web3AccountsSubscribe,
\* leaves the account lists of the sessions and the subscription as they are,
\* and succeeds also when the provider enable throws.
C16_Reuse == [][C16_CallStep /\ C16_ReturnStep]_vars

C16_Witness ==
  \E c \in ConnectCalls :
    /\ conn[c].out = "ok" /\ conn[c].extCalls = <<"enable">>
    /\ conn[c].params.address = "none" /\ conn[c].result.address = "5Bob"
    /\ conn[c].result.provider = "empty"
    /\ events[Len(events)] = accountChanged("5Bob", conn[c].result.chainId, conn[c].params.id)

\* ------------------------------------------------ the claims about web3Enable
pendingEnables == {p \in 1..Len(promises) : promises[p] = "pending"}
enableSucceeded == \E p \in 1..Len(promises) : promises[p] = "nonEmpty"

\* web3Enable is not invoked once an invocation has succeeded
C17_OnceStep == enableSucceeded => Len(promises') = Len(promises)

\* C17: web3Enable is never invoked while a previous invocation on the adapter
\* is pending (a caller that arrives meanwhile awaits it), and never again
\* after an invocation has succeeded with a non-empty extension list.
C17_SingleEnable == [](Cardinality(pendingEnables) <= 1) /\ [][C17_OnceStep]_vars

\* ---------------------------------------------------------------------------
\* Account selection of a fresh connect (adapter.ts:594-633)

\* the step of a fresh connect that takes its account and stores the session
selectedNow(c) == conn[c].pc \in {"accounts", "selecting"} /\ conn'[c].pc = "subscribing"

\* the session stored for the connector, after the step
sessionsOf(id) == {i \in 1..Len(connections') : connections'[i].connectorId = id}

C18_SelectStep ==
  \A c \in ConnectCalls :
    selectedNow(c) =>
      LET p == conn'[c].params
          C == conn'[c].accounts
          sel == conn'[c].selected
      IN /\ C # <<>>
         /\ sel \in addresses(C)
         /\ IF p.address # "none"
            THEN /\ conn[c].pc = "accounts"
                 /\ sel = IF p.address \in addresses(C) THEN p.address ELSE C[1].address
            ELSE IF Len(C) = 1 THEN conn[c].pc = "accounts" /\ sel = C[1].address
            ELSE IF env.onSelectAccount THEN conn[c].pc = "selecting" /\ C = conn[c].accounts
            ELSE conn[c].pc = "accounts" /\ sel = C[1].address
         /\ \E i \in sessionsOf(p.id) : connections'[i].accounts = <<[address |-> sel]>>
         /\ \A i \in sessionsOf(p.id) : connections'[i].accounts = <<[address |-> sel]>>

\* the callback settles without an account of C, or with one
C18_CancelStep ==
  \A c \in ConnectCalls :
    /\ (conn[c].pc = "selecting" /\ conn'[c] # conn[c]) =>
         IF conn'[c].selected \in addresses(conn[c].accounts)
         THEN conn'[c].err # "selectionCancelled"
         ELSE /\ conn'[c].pc = "done" /\ conn'[c].out = "failed"
              /\ conn'[c].err = "selectionCancelled"
              /\ conn'[c].err \notin {"noAccounts", "noAccountsForWallet"}
              /\ UNCHANGED <<connections, connectors, events, subs>>
    /\ (finishedNow(c) /\ conn'[c].err = "selectionCancelled") => conn[c].pc = "selecting"

\* every stored session holds one account, an account of its connector
C18_SessionOfCandidates ==
  \A i \in 1..Len(connections) :
    \E k \in 1..Len(connectors) :
      /\ connectors[k].id = connections[i].connectorId
      /\ Len(connections[i].accounts) = 1
      /\ connections[i].accounts[1].address \in addresses(connectors[k].accounts)

\* C18: a fresh connect with the non-empty account list C of the source
\* selects the account of the requested address, or C[0] when the requested
\* address is not in C; C[0] when C has one account; otherwise the answer of
\* the selection callback when there is one, C[0] when there is none. A
\* callback that rejects or answers with an account outside C fails the
\* connect with 'Account selection cancelled', which is none of the no-accounts
\* errors. So the account of every stored session is an account of C.
C18_Selection == []C18_SessionOfCandidates /\ [][C18_SelectStep /\ C18_CancelStep]_vars

\* the callback answered outside C and the connect failed; then a connect that
\* asked for an address absent from C took C[0]
C18_Witness ==
  /\ \E c \in ConnectCalls :
       /\ conn[c].out = "ok" /\ conn[c].params.address = "5Bob"
       /\ conn[c].accounts # <<>> /\ "5Bob" \notin addresses(conn[c].accounts)
       /\ conn[c].result.address = "5Alice"
  /\ \E c \in ConnectCalls :
       /\ Len(conn[c].accounts) > 1 /\ env.onSelectAccount
       /\ conn[c].err = "selectionCancelled" /\ conn[c].selected = "5Eve"

\* ---------------------------------------------------------------------------
\* Failures of a fresh connect (adapter.ts:554-592, 609-624, 655-661)

\* no extension, enable rejected, no accounts, none for the source, selection
\* cancelled, no network
FreshFailures == {"noExtension", "enableRejected", "noAccounts", "noAccountsForWallet",
                  "selectionCancelled", "noNetwork"}

onceEach(calls) == \A i, j \in 1..Len(calls) : calls[i] = calls[j] => i = j

\* the step on which a fresh connect throws one of these errors
C19_FailStep ==
  \A c \in ConnectCalls :
    (finishedNow(c) /\ conn'[c].err \in FreshFailures) =>
      /\ conn'[c].out = "failed"
      /\ onceEach(conn'[c].extCalls)
      /\ sessionsOf(conn'[c].params.id) = {}
      /\ UNCHANGED <<events, subs, accountUnsubscribe>>

\* a connect in flight emits and subscribes on the step that stores its session
C19_EmitStep ==
  \A c \in ConnectCalls :
    (conn[c].pc \notin {"idle", "done"} /\ conn'[c] # conn[c]
       /\ (events' # events \/ subs' # subs)) =>
      \/ selectedNow(c)
      \/ conn[c].pc = "subscribing" /\ events' = events

\* a failed connect has stored no session of its own and asked for no subscription
C19_NothingAttached ==
  \A c \in ConnectCalls :
    conn[c].err \in FreshFailures =>
      /\ conn[c].sub = 0
      /\ "web3AccountsSubscribe" \notin Range(conn[c].extCalls)

\* C19: a fresh connect that fails because no extension is found, the enable is
\* rejected, the extension has no accounts, none of them belongs to the source,
\* the selection is cancelled or no network is configured throws that error to
\* its caller without calling the extension again; after it no session of the
\* source exists, and the attempt has emitted no accountChanged and attached
\* no subscription.
C19_FreshFailure == []C19_NothingAttached /\ [][C19_FailStep /\ C19_EmitStep]_vars

\* ---------------------------------------------------------------------------
\* The order of a successful fresh connect (adapter.ts:676-706, 745-765)

\* a fresh connect returns its result
freshReturn(c) ==
  /\ finishedNow(c) /\ conn'[c].out = "ok"
  /\ conn[c].pc \in {"subscribing", "providerEnable"}

\* the session is stored and one accountChanged with the selected address and
\* the resolved chain id is emitted; the subscription is asked for, not yet there
C20_StoreEmitStep ==
  \A c \in ConnectCalls :
    selectedNow(c) =>
      LET p == conn'[c].params
          sel == conn'[c].selected
          chainId == conn'[c].result.chainId
      IN /\ chainId = resolveChainId(p)
         /\ \E i \in sessionsOf(p.id) :
              connections'[i] = [connectorId |-> p.id, chainId |-> chainId,
                                 accounts |-> <<[address |-> sel]>>,
                                 caipNetwork |-> resolveCaipNetwork(chainId)]
         /\ events' = Append(events, accountChanged(sel, chainId, p.id))
         /\ conn'[c].sub = Len(subs') /\ Len(subs') = Len(subs) + 1
         /\ subs'[conn'[c].sub] = [connectorId |-> p.id, st |-> "pending", seen |-> 0]
         /\ conn'[c].extCalls[Len(conn'[c].extCalls)] = "web3AccountsSubscribe"
         /\ conn'[c].out = "none"

\* after that the attempt emits nothing more, and web3AccountsSubscribe
\* settles before anything else of the attempt
C20_QuietStep ==
  \A c \in ConnectCalls :
    (conn[c].pc \in {"subscribing", "providerEnable"} /\ conn'[c] # conn[c]) =>
      /\ events' = events /\ connections' = connections
      /\ conn'[c].selected = conn[c].selected
      /\ conn[c].pc = "subscribing" =>
           /\ subs[conn[c].sub].st = "pending"
           /\ subs'[conn[c].sub].st \in {"active", "failed"}
           /\ accountUnsubscribe' = IF subs'[conn[c].sub].st = "active" THEN conn[c].sub ELSE 0
      /\ conn[c].pc = "providerEnable" => subs[conn[c].sub].st # "pending"

\* connect returns the address it emitted, after the subscription call settled
C20_ReturnStep ==
  \A c \in ConnectCalls :
    /\ freshReturn(c) =>
         /\ conn'[c].result.address = conn[c].selected
         /\ conn'[c].result.chainId = conn[c].result.chainId
         /\ conn'[c].result.id = conn[c].params.id
         /\ subs'[conn[c].sub].st # "pending"
         /\ \E k \in 1..Len(events) :
              events[k] = accountChanged(conn'[c].result.address, conn'[c].result.chainId,
                                         conn[c].params.id)
    /\ (finishedNow(c) /\ conn'[c].out = "ok" /\ conn[c].pc \notin {"idle", "reuseEnable"}) =>
         freshReturn(c)

\* at the return the subscription of the attempt has been attached
C20_AttachedStep ==
  \A c \in ConnectCalls :
    freshReturn(c) => subs'[conn[c].sub].st \in {"active", "released"}

\* C20 as stated: on every successful fresh connect the session is stored,
\* then one accountChanged with the selected address and the resolved chain id
\* is emitted, then the account subscription is attached, and only then
\* connect returns, with the address it emitted.
C20_OrderAsStated ==
  [][C20_StoreEmitStep /\ C20_QuietStep /\ C20_ReturnStep /\ C20_AttachedStep]_vars

\* C20, amended: on every successful fresh connect the session is stored, then
\* one accountChanged with the selected address and the resolved chain id is
\* emitted, then the account subscription is asked for and connect waits for
\* the answer: the subscription is attached when web3AccountsSubscribe
\* succeeds, and none is attached when it fails; only then connect returns,
\* with the address it emitted.
C20_Order == [][C20_StoreEmitStep /\ C20_QuietStep /\ C20_ReturnStep]_vars

\* a fresh connect returned the account the callback chose, with its
\* subscription attached; another returned with its subscription failed
C20_Witness ==
  /\ \E c \in ConnectCalls :
       /\ conn[c].out = "ok" /\ conn[c].sub # 0
       /\ conn[c].result.address = "5Bob" /\ conn[c].accounts[1].address = "5Alice"
       /\ subs[conn[c].sub].st = "active" /\ accountUnsubscribe = conn[c].sub
       /\ \E k \in 1..Len(events) : events[k].address = "5Bob"
  /\ \E c \in ConnectCalls :
       /\ conn[c].out = "ok" /\ conn[c].sub # 0
       /\ subs[conn[c].sub].st = "failed"

\* ---------------------------------------------------------------------------
\* The warm-up of the client that connect launches (adapter.ts:728-743)

\* configurations of one wallet: three endpoints, one endpoint, no endpoint
WarmEnvs ==
  { [networks |-> <<"hub", "ksm">>, activeCaip |-> "none", onSelectAccount |-> FALSE],
    [networks |-> <<"hub", "ksm">>, activeCaip |-> "ksm", onSelectAccount |-> TRUE],
    [networks |-> <<"bare">>, activeCaip |-> "none", onSelectAccount |-> FALSE] }

InitWarm ==
  /\ InitPureSide({caipNetworks["hub"].rpcUrls})
  /\ InitApiSide({{}})
  /\ InitConnSide(WarmEnvs)

\* connects and disconnects of one wallet, and the endpoints of the warm-ups
\* answering, failing, timing out or staying silent
NextWarm ==
  \/ \E c \in ConnectCalls : ConnectCall(c, connectParams("talisman", "none", "none"))
  \/ \E c \in ConnectCalls : LibsImported(c)
  \/ \E c \in ConnectCalls : EnsureEnabled(c)
  \/ \E c \in ConnectCalls : EnableSettled(c, "nonEmpty")
  \/ \E c \in ConnectCalls : AccountsReturned(c, <<injected("5Tom", "talisman")>>)
  \/ \E c \in ConnectCalls, ok \in BOOLEAN : Subscribed(c, ok)
  \/ Disconnect("talisman")
  \/ \E a \in ApiCalls : AttemptReady(a)
  \/ \E a \in ApiCalls, errorHasProvider \in BOOLEAN : AttemptError(a, errorHasProvider)
  \/ \E a \in ApiCalls : AttemptTimeout(a)
  \/ \E h \in 1..Len(clients) : LateReady(h)

SpecWarm == InitWarm /\ [][NextWarm]_vars

\* the warm-up calls: getApi calls nobody waits for
warmupCalls == {a \in ApiCalls : api[a].kind = "getApi" /\ a <= Len(warmups)}

\* a fresh connect that got as far as the warm-up returns its result, and the
\* getApi call it launched is pending or has ended at once: on a cached client
\* or on a network without endpoint
C21_LaunchStep ==
  \A c \in ConnectCalls :
    (finishedNow(c) /\ conn[c].pc \in {"subscribing", "providerEnable"}) =>
      /\ conn'[c].out = "ok"
      /\ conn'[c].result.address = conn[c].selected
      /\ Len(warmups') = Len(warmups) + 1
      /\ LET a == Len(warmups') IN
           /\ api[a].pc = "idle"
           /\ api'[a].kind = "getApi"
           /\ api'[a].net = warmups'[a]
           /\ \/ api'[a].pc = "attempt"
              \/ api'[a].pc = "done" /\ api'[a].acq \in {"cached", "config"}
      /\ connections' = connections

\* what a warm-up does later touches no connect call, no session and no event
C21_WarmupStep ==
  (\E a \in warmupCalls : api'[a] # api[a]) =>
    UNCHANGED <<conn, connections, connectors, events, isConnecting, subs, accountUnsubscribe>>

\* a connect that has returned stays as it returned
C21_ReturnedStep ==
  \A c \in ConnectCalls : conn[c].pc = "done" => conn'[c] = conn[c]

\* C21: connect returns success whatever becomes of the warm-up it launches:
\* it returns while the warm-up acquire is pending, and a warm-up that fails on
\* every endpoint, finds no endpoint or never completes neither turns the
\* connect into a failure nor changes the stored session.
C21_WarmupIndependent == [][C21_LaunchStep /\ C21_WarmupStep /\ C21_ReturnedStep]_vars

\* one connect returned and its warm-up failed on every endpoint; after a
\* disconnect another connect returned while its warm-up is pending; the
\* session of the second is stored
C21_Witness ==
  /\ \E c, d \in ConnectCalls : c # d /\ conn[c].out = "ok" /\ conn[d].out = "ok"
  /\ \E a, b \in warmupCalls :
       /\ api[a].pc = "done" /\ api[a].acq = "exhausted"
       /\ api[b].pc = "attempt" /\ clients[api[b].cur].st = "pending"
  /\ \E i \in 1..Len(connections) : connections[i].connectorId = "talisman"

\* ---------------------------------------------------------------------------
\* disconnect (adapter.ts:782-825)

\* the ids disconnect is called with; "all" stands for the call without an id
DisconnectIds == WalletIds \cup {"all"}

C22_DisconnectStep ==
  \A id \in DisconnectIds :
    Disconnect(id) =>
      /\ IF id = "all"
         THEN connections' = <<>>
         ELSE /\ \A i \in 1..Len(connections') : connections'[i].connectorId # id
              /\ connections' = SelectSeq(connections, LAMBDA s : s.connectorId # id)
      /\ disconnectResult.connections = connections'

\* C22: disconnect(id) removes the session of that id and leaves the sessions
\* of the other ids as they are; disconnect() without an id removes every
\* session; the connection list either call returns is the list of the
\* sessions that remain.
C22_Disconnect == [][C22_DisconnectStep]_vars

\* both wallets were connected and a disconnect has removed the session of
\* talisman alone: the session of subwallet is still stored
C22_Witness ==
  /\ disconnects = 1
  /\ \E c \in ConnectCalls : conn[c].out = "ok" /\ conn[c].params.id = "talisman"
  /\ \E c \in ConnectCalls : conn[c].out = "ok" /\ conn[c].params.id = "subwallet"
  /\ Len(connections) = 1 /\ connections[1].connectorId = "subwallet"
  /\ inFlightConnects = {}

C23_EmitStep ==
  \A id \in DisconnectIds :
    Disconnect(id) =>
      IF connections' = <<>>
      THEN events' = Append(events, disconnectEvent)
      ELSE events' = events

\* C23: a disconnect call emits the 'disconnect' event once when no session
\* remains after it, and emits no 'disconnect' event when a session remains.
C23_DisconnectEvent == [][C23_EmitStep]_vars

\* a session was stored, a disconnect left none and emitted 'disconnect' once
C23_Witness ==
  /\ disconnects = 1
  /\ connections = <<>>
  /\ \E k \in 1..Len(events) : events[k].type = "accountChanged"
  /\ Cardinality({k \in 1..Len(events) : events[k] = disconnectEvent}) = 1
  /\ events[Len(events)] = disconnectEvent

\* ---------------------------------------------------------------------------
\* The account subscription (adapter.ts:243-299)

\* the subscriptions web3AccountsSubscribe has set up and nobody has unsubscribed
activeSubs == {i \in 1..Len(subs) : subs[i].st = "active"}

\* asking for a new subscription releases the one the adapter holds
C24_ReleaseStep ==
  Len(subs') > Len(subs) =>
    /\ accountUnsubscribe # 0 => subs'[accountUnsubscribe].st = "released"
    /\ accountUnsubscribe' = 0

\* C24: in every reachable state, whatever the interleaving of connect and
\* disconnect calls, at most one account subscription of the adapter is active,
\* and attaching a new one releases the previous one first.
C24_OneSubscription == [](Cardinality(activeSubs) <= 1) /\ [][C24_ReleaseStep]_vars

\* subscription i delivers a notification
notifiedNow(i) == Len(subs') = Len(subs) /\ subs'[i].seen # subs[i].seen

\* a notification without an account of the source of the subscription
C25_IgnoredStep ==
  \A i \in 1..Len(subs), l \in NotificationLists :
    (/\ notifiedNow(i)
     /\ AccountsNotified(i, l)
     /\ \A k \in 1..Len(l) : l[k].source # getWalletSource(subs[i].connectorId)) =>
      /\ UNCHANGED <<events, connections, connectors, accountUnsubscribe>>
      /\ \A j \in 1..Len(subs) : subs'[j].st = subs[j].st
      /\ Len(subs') = Len(subs)

\* C25: an account notification that holds no account of the subscribed
\* source, only accounts of other sources or none at all, emits no event,
\* changes no session and tears nothing down.
C25_ForeignIgnored == [][C25_IgnoredStep]_vars

\* the subscription of a stored session has delivered notifications, and the
\* only event is the accountChanged of the connect
C25_Witness ==
  \E i \in 1..Len(subs) :
    /\ subs[i].st = "active" /\ subs[i].seen = MaxNotifications
    /\ accountUnsubscribe = i
    /\ \E j \in 1..Len(connections) :
         /\ connections[j].connectorId = subs[i].connectorId
         /\ Len(connections[j].accounts) = 1
    /\ Len(events) = 1 /\ events[1].type = "accountChanged"
    /\ disconnects = 0

\* the accounts of a notification that belong to the source of the connector
ownAddresses(l, id) ==
  LET own == SelectSeq(l, LAMBDA acc : acc.source = getWalletSource(id))
  IN [k \in 1..Len(own) |-> own[k].address]

sessionAddresses(session) == [k \in 1..Len(session.accounts) |-> session.accounts[k].address]

C26_NotifiedStep ==
  \A i \in 1..Len(subs), l \in NotificationLists :
    (notifiedNow(i) /\ AccountsNotified(i, l) /\ ownAddresses(l, subs[i].connectorId) # <<>>) =>
      LET id == subs[i].connectorId
          own == ownAddresses(l, id)
          before == SelectSeq(connections, LAMBDA s : s.connectorId = id)
          after == SelectSeq(connections', LAMBDA s : s.connectorId = id)
      IN IF before # <<>>
         THEN /\ Len(after) = 1
              /\ sessionAddresses(after[1]) = own
              /\ after[1].caipNetwork = before[1].caipNetwork
              /\ after[1].chainId = before[1].chainId
              /\ SelectSeq(connections', LAMBDA s : s.connectorId # id)
                   = SelectSeq(connections, LAMBDA s : s.connectorId # id)
              /\ Len(events') = Len(events) + 1
              /\ SubSeq(events', 1, Len(events)) = events
              /\ events'[Len(events')].type = "accountChanged"
              /\ events'[Len(events')].address = own[1]
              /\ events'[Len(events')].chainId = before[1].caipNetwork
         ELSE UNCHANGED <<connections, events>>

\* C26: on a notification with accounts of the subscribed source, the account
\* list of the session of that source is replaced by these accounts and one
\* accountChanged is emitted, with the first of them as address and the network
\* id of the session as chain id; without a session of that source nothing is
\* emitted and no session is created.
C26_Notified == [][C26_NotifiedStep]_vars

\* the session of subwallet holds the accounts of the last notification, two
\* of them, after one with another first account; the last event carries the
\* first account and the network of the session
C26_Witness ==
  /\ \E j \in 1..Len(connections) :
       /\ connections[j].connectorId = "subwallet"
       /\ connections[j].accounts = <<[address |-> "5Alice"], [address |-> "5Bob"]>>
       /\ events[Len(events)] = accountChanged("5Alice", connections[j].caipNetwork, "subwallet")
  /\ \E k \in 1..Len(events) : events[k].address = "5Bob"
  /\ \E i \in 1..Len(subs) : subs[i].connectorId = "subwallet" /\ subs[i].seen = 2

\* web3AccountsSubscribe of connect c rejects
subscribeFailedNow(c) ==
  /\ conn[c].pc = "subscribing" /\ conn'[c] # conn[c]
  /\ subs'[conn[c].sub].st = "failed"

\* the subscriptions that deliver notifications for the sessions of a connector
activeFor(id) == {i \in 1..Len(subs') : subs'[i].connectorId = id /\ subs'[i].st = "active"}

C27_FailedStep ==
  \A c \in ConnectCalls :
    /\ subscribeFailedNow(c) =>
         /\ conn'[c].pc \in {"providerEnable", "done"}
         /\ conn'[c].out \in {"none", "ok"}
         /\ connections' = connections
         /\ events' = events
         /\ \E k \in 1..Len(events) :
              events[k] = accountChanged(conn[c].selected, conn[c].result.chainId,
                                         conn[c].params.id)
         /\ accountUnsubscribe' = 0
         /\ activeFor(conn[c].params.id) = {}
    /\ (finishedNow(c) /\ conn[c].pc = "providerEnable" /\ subs[conn[c].sub].st = "failed") =>
         conn'[c].out = "ok"

\* a subscription that failed delivers nothing
C27_FailedSilent == \A i \in 1..Len(subs) : subs[i].st = "failed" => subs[i].seen = 0

\* C27: when web3AccountsSubscribe fails during a connect, the connect still
\* returns successfully, with its session stored and its accountChanged
\* emitted; after the failure the adapter holds no unsubscribe handle and no
\* notification is processed for that session.
C27_SubscribeFailure == []C27_FailedSilent /\ [][C27_FailedStep]_vars

\* ---------------------------------------------------------------------------
\* One session per wallet source (adapter.ts:554-556, 682-691, 1330-1344)

\* two connector ids of one extension: getWalletSource maps both to subwallet-js
AliasIds == {"subwallet", "subwallet-js"}

\* connects and disconnects of one extension under both of its connector ids
NextAlias ==
  \/ \E c \in ConnectCalls, id \in AliasIds : ConnectCall(c, connectParams(id, "none", "none"))
  \/ \E c \in ConnectCalls : LibsImported(c)
  \/ \E c \in ConnectCalls : EnsureEnabled(c)
  \/ \E c \in ConnectCalls : EnableSettled(c, "nonEmpty")
  \/ \E c \in ConnectCalls : AccountsReturned(c, AllAccounts)
  \/ \E c \in ConnectCalls, ok \in BOOLEAN : Subscribed(c, ok)
  \/ \E c \in ConnectCalls, ok \in BOOLEAN : ProviderEnabled(c, ok)
  \/ \E c \in ConnectCalls, ok \in BOOLEAN : ReuseEnabled(c, ok)
  \/ \E id \in AliasIds \cup {"all"} : Disconnect(id)

SpecAlias == InitNotify /\ [][NextAlias]_vars

\* the sessions of a wallet source, under whatever connector id
sessionsOfSource(source) ==
  {i \in 1..Len(connections) : getWalletSource(connections[i].connectorId) = source}

\* C28: in every reachable state at most one session exists per wallet
\* source, the connector ids getWalletSource maps to one source counting as
\* that source; connecting a source again replaces its session and adds no
\* second one.
C28_OneSessionPerSource ==
  \A i \in 1..Len(connections) :
    Cardinality(sessionsOfSource(getWalletSource(connections[i].connectorId))) = 1

\* ---------------------------------------------------------------------------
\* The network a connect asks for (adapter.ts:643-661)

\* params.chainId of connect: absent, a configured network, or an id that
\* getCaipNetworks does not list
RequestedChainIds == {"none", "hub", "ksm", "unknown"}

NetworkEnvs ==
  { [networks |-> <<"hub", "ksm">>, activeCaip |-> "none", onSelectAccount |-> FALSE],
    [networks |-> <<"hub", "ksm">>, activeCaip |-> "ksm", onSelectAccount |-> FALSE] }

InitNetwork ==
  /\ InitPureSide({caipNetworks["hub"].rpcUrls})
  /\ InitApiSide({{}})
  /\ InitConnSide(NetworkEnvs)

\* connects of one wallet that name a network, and disconnects
NextNetwork ==
  \/ \E c \in ConnectCalls, chainId \in RequestedChainIds :
       ConnectCall(c, connectParams("talisman", "none", chainId))
  \/ \E c \in ConnectCalls : LibsImported(c)
  \/ \E c \in ConnectCalls : EnsureEnabled(c)
  \/ \E c \in ConnectCalls : EnableSettled(c, "nonEmpty")
  \/ \E c \in ConnectCalls : AccountsReturned(c, <<injected("5Tom", "talisman")>>)
  \/ \E c \in ConnectCalls, ok \in BOOLEAN : Subscribed(c, ok)
  \/ Disconnect("talisman")

SpecNetwork == InitNetwork /\ [][NextNetwork]_vars

\* networks.find(n => n.id === String(params.chainId)) finds nothing
\* (adapter.ts:649)
requestsUnknown(c) ==
  conn[c].params.chainId \notin ({"none"} \cup Range(env.networks))

\* C29: a connect that asks for a network id which is not configured fails:
\* past the guard it never gets as far as storing a session and subscribing,
\* and it never returns a result.
C29_UnknownNetworkFails ==
  \A c \in ConnectCalls :
    (requestsUnknown(c) /\ conn[c].passed) =>
      /\ conn[c].pc \notin {"subscribing", "providerEnable", "reuseEnable"}
      /\ conn[c].out # "ok"

\* ---------------------------------------------------------------------------
\* Attempts that timed out (adapter.ts:1413-1443)

timedOutClients == {h \in 1..Len(clients) : clients[h].timedOut}

\* the handles getApi has returned to its callers
returnedHandles == {api[a].handle : a \in ApiCalls} \ {0}

\* the client of a timed-out attempt becomes ready: the cache and every
\* getApi call stay as they are
C30_LateStep ==
  \A h \in 1..Len(clients) :
    LateReady(h) => (apiCache' = apiCache /\ api' = api)

\* C30: an endpoint attempt that timed out never affects the cache afterwards:
\* when its connection becomes ready later, the cache entry of the network is
\* neither set nor replaced with its client, and no getApi call ever returns
\* the client of an attempt that timed out.
C30_TimedOutNeverCached ==
  /\ [](\A n \in NetIds : apiCache[n] \notin timedOutClients)
  /\ [](returnedHandles \cap timedOutClients = {})
  /\ [][C30_LateStep]_vars

\* C30 witness: the client of a timed-out attempt is ready and connected while
\* the cache of its network holds the client of a later attempt, which getApi
\* returned
C30_Witness ==
  \E h \in timedOutClients :
    /\ clients[h].st = "ready"
    /\ clients[h].conn = "yes"
    /\ apiCache[clients[h].net] \notin {0, h}
    /\ apiCache[clients[h].net] \in returnedHandles

\* ---------------------------------------------------------------------------
\* Termination of getApi (adapter.ts:1412-1461)

\* one getApi call; each endpoint answers, fails, or stays silent until the
\* timer of withTimeout fires
NextAcquire ==
  \/ \E n \in NetIds : GetApiCall(1, n)
  \/ AttemptReady(1)
  \/ \E errorHasProvider \in BOOLEAN : AttemptError(1, errorHasProvider)
  \/ AttemptTimeout(1)
  \/ \E h \in 1..Len(clients) : LateReady(h)

\* setTimeout(() => reject(...), timeoutMs) (adapter.ts:1415-1417): the timer
\* of a pending attempt fires
SpecAcquire == InitApi /\ [][NextAcquire]_vars /\ WF_vars(AttemptTimeout(1))

\* a step of a call that is waiting on an attempt ends that attempt: by
\* readiness (cache), by an error (fail) or by the timer (timeout)
C31_AttemptEndStep ==
  \A a \in ApiCalls :
    (api[a].pc = "attempt" /\ api'[a] # api[a]) =>
      /\ Len(api'[a].ops) > Len(api[a].ops)
      /\ api'[a].ops[Len(api[a].ops) + 1].op \in {"cache", "fail", "timeout"}
      /\ api'[a].ops[Len(api[a].ops) + 1].url = api[a].urls[api[a].idx]

\* C31: every getApi call completes, with a handle or with an error, also
\* when endpoints never respond: with N candidates it makes at most N
\* attempts, and each attempt is ended by readiness, an error or the timer.
C31_Terminates ==
  /\ \A a \in ApiCalls : (api[a].pc = "attempt") ~> (api[a].pc = "done")
  /\ [](\A a \in ApiCalls :
          api[a].pc # "idle" => Len(opened(api[a].ops)) <= Len(candidates(api[a].net)))
  /\ [][C31_AttemptEndStep]_vars

\* C31 witness: none of the three endpoints of a network ever responded, and
\* the call ended with the error of the third timeout
C31_Witness ==
  \E a \in ApiCalls :
    /\ api[a].pc = "done"
    /\ api[a].acq = "exhausted"
    /\ Len(opened(api[a].ops)) = 3
    /\ \A k \in 1..Len(api[a].ops) : api[a].ops[k].op \in {"open", "timeout"}
    /\ api[a].err.kind = "timeout"

\* ---------------------------------------------------------------------------
\* Callers that await an enable in flight (adapter.ts:159-194)

\* the calls that await the web3Enable promise call c started
waitersOf(c) ==
  {w \in ConnectCalls : conn[w].pc = "enableWait" /\ conn[w].promise = conn[c].promise}

\* web3Enable settles for the call that started it and for the calls that
\* await it: they fail together or go on together
C32_SettledStep ==
  \A c \in ConnectCalls :
    (conn[c].pc = "enabling" /\ conn'[c].pc # "enabling") =>
      \A w \in waitersOf(c) :
        IF conn'[c].out = "failed"
        THEN conn'[w].pc = "done" /\ conn'[w].out = "failed"
        ELSE conn'[w].pc = "accounts" /\ extensionsEnabled'

\* C32: a caller that awaited an enable in flight gets the outcome of the
\* caller that started it: it goes on only if the enable succeeded with at
\* least one extension, and it fails whenever the starting caller fails, also
\* when the enable resolved with an empty extension list.
C32_SameOutcome == [][C32_SettledStep]_vars

\* ---------------------------------------------------------------------------
\* Connecting again after a failed subscription (adapter.ts:494-503, 294-298)

\* an earlier connect of the connector asked for a subscription and
\* web3AccountsSubscribe rejected
failedBefore(c) ==
  \E i \in 1..Len(subs) :
    /\ i # conn[c].sub
    /\ subs[i].connectorId = conn[c].params.id
    /\ subs[i].st = "failed"

\* a connect returns its result after an earlier subscription of its source
\* had failed, its own request for a subscription, if it made one, did not
\* fail, and the session of the source is there: a subscription of the source
\* is active
C33_ReattachStep ==
  \A c \in ConnectCalls :
    (/\ finishedNow(c)
     /\ conn'[c].out = "ok"
     /\ failedBefore(c)
     /\ conn[c].sub # 0 => subs'[conn[c].sub].st # "failed"
     /\ \E i \in 1..Len(connections') : connections'[i].connectorId = conn[c].params.id) =>
      activeFor(conn[c].params.id) # {}

\* C33: after a connect whose subscription setup failed, a later connect for
\* the same extension source attaches the account subscription, so that the
\* session receives live account updates again.
C33_Reattach == [][C33_ReattachStep]_vars

\* ---------------------------------------------------------------------------
\* The subscription of a disconnected wallet (adapter.ts:787-801)

\* C34: after disconnect(id) has returned, no account subscription that was
\* attached for that extension source is active, whether or not sessions of
\* other sources remain.
C34_Unsubscribed ==
  [][\A id \in WalletIds : Disconnect(id) => activeFor(id) = {}]_vars

\* ---------------------------------------------------------------------------
\* 'disconnect' per transition to no session (adapter.ts:816-824)

\* C35: the 'disconnect' event is delivered at most once per transition from
\* at least one session to none: a disconnect call made while no session
\* exists emits no 'disconnect' event.
C35_OncePerTransition ==
  [][\A id \in DisconnectIds : (Disconnect(id) /\ connections = <<>>) => events' = events]_vars

\* ---------------------------------------------------------------------------
\* The network of a fresh connect (adapter.ts:643-699, 745-752)

\* connect c stores its session and emits accountChanged
storedNow(c) == conn[c].pc # "subscribing" /\ conn'[c].pc = "subscribing"

\* the session of a connector after the step
sessionAfter(id) ==
  connections'[CHOOSE i \in 1..Len(connections') : connections'[i].connectorId = id]

\* a fresh connect that names a configured network stores and emits that
\* network, and returns it
C36_RequestedStep ==
  \A c \in ConnectCalls :
    LET requested == conn[c].params.chainId IN
    /\ (storedNow(c) /\ requested \in Range(env.networks)) =>
         /\ sessionAfter(conn[c].params.id).caipNetwork = requested
         /\ sessionAfter(conn[c].params.id).chainId = requested
         /\ events'[Len(events')].chainId = requested
    /\ (finishedNow(c) /\ conn[c].sub # 0 /\ conn'[c].out = "ok"
        /\ requested \in Range(env.networks)) =>
         conn'[c].result.chainId = requested

\* C36: on a fresh connect with a requested chainId that is one of the
\* configured networks, the network of the session and the chain id emitted
\* and returned are the requested one, also when another network is active:
\* the explicit parameter comes first, then the active network, then the
\* default relay chain.
C36_ExplicitFirst == [][C36_RequestedStep]_vars

\* an accountChanged event of connect carries the id of the network of the
\* session of its connector
C39_EmittedStep ==
  (Len(events') = Len(events) + 1 /\ events'[Len(events')].type = "accountChanged") =>
    sessionAfter(events'[Len(events')].connector).caipNetwork = events'[Len(events')].chainId

\* C39: for every session connect stores and every accountChanged it emits,
\* the chain id recorded or emitted is the id of the network the session was
\* resolved to, whatever the active network, the requested chainId and the
\* configured networks.
C39_ChainIdOfNetwork ==
  /\ [](\A i \in 1..Len(connections) : connections[i].chainId = connections[i].caipNetwork)
  /\ [][C39_EmittedStep]_vars

\* ---------------------------------------------------------------------------
\* The selected account and the account feed (adapter.ts:256-291, 594-600)

\* connects of one wallet, with and without a requested address, and the
\* account feed of the extension
NextPrimary ==
  \/ \E c \in ConnectCalls, address \in {"none", "5Bob"} :
       ConnectCall(c, connectParams("subwallet", address, "none"))
  \/ \E c \in ConnectCalls : LibsImported(c)
  \/ \E c \in ConnectCalls : EnsureEnabled(c)
  \/ \E c \in ConnectCalls : EnableSettled(c, "nonEmpty")
  \/ \E c \in ConnectCalls : AccountsReturned(c, AllAccounts)
  \/ \E c \in ConnectCalls, ok \in BOOLEAN : Subscribed(c, ok)
  \/ \E c \in ConnectCalls, ok \in BOOLEAN : ProviderEnabled(c, ok)
  \/ \E c \in ConnectCalls, ok \in BOOLEAN : ReuseEnabled(c, ok)
  \/ \E i \in 1..Len(subs), l \in NotificationLists : AccountsNotified(i, l)

SpecPrimary == InitNotify /\ [][NextPrimary]_vars

\* the primary account of a session: the first of its accounts
primary(session) == session.accounts[1].address

\* the subscription of connect c delivers a notification that still holds the
\* account X the connect selected, X being the primary account of the session:
\* X stays the primary account and no other address is announced
C37_KeptStep ==
  \A c \in ConnectCalls, l \in NotificationLists :
    LET i == conn[c].sub
        id == conn[c].params.id
        X == conn[c].selected
        before == SelectSeq(connections, LAMBDA s : s.connectorId = id)
        after == SelectSeq(connections', LAMBDA s : s.connectorId = id)
    IN (/\ i # 0
        /\ notifiedNow(i)
        /\ AccountsNotified(i, l)
        /\ before # <<>>
        /\ primary(before[1]) = X
        /\ X \in Range(ownAddresses(l, id))) =>
         /\ after # <<>>
         /\ primary(after[1]) = X
         /\ events' # events => events'[Len(events')].address = X

\* C37: after a connect has selected account X for a source, a notification
\* whose accounts for that source still contain X, such as one that reports
\* the account set of connect time, does not change the primary account of
\* the session and emits no accountChanged that names another address.
C37_PrimaryKept == [][C37_KeptStep]_vars

\* ---------------------------------------------------------------------------
\* Disconnect during a connect (adapter.ts:243-299, 690-706, 796-814)

\* C38: for every interleaving of disconnect calls with a connect in flight,
\* in every state where no connect is in flight and no session exists, no
\* account subscription is active and the adapter holds no unsubscribe handle.
C38_NothingLeftBehind ==
  (inFlightConnects = {} /\ connections = <<>>) =>
    (activeSubs = {} /\ accountUnsubscribe = 0)

\* ---------------------------------------------------------------------------
\* loadPolkadotLibs and its callers on a fresh adapter (adapter.ts:199-237)

\* the entries of this.libs that are populated at each stage of the imports:
\* extension-dapp, then api, then util (adapter.ts:204-236)
dappEntries == {"web3Enable", "web3Accounts", "web3AccountsSubscribe", "web3FromAddress"}
apiEntries == {"ApiPromise", "WsProvider"}
populated(stage) ==
  CASE stage \in {"none", "empty"} -> {}
    [] stage = "dapp" -> dappEntries
    [] stage = "api" -> dappEntries \cup apiEntries
    [] stage = "full" -> dappEntries \cup apiEntries \cup {"formatBalance"}

\* the entries a caller goes on to use once loadPolkadotLibs has returned
\* (adapter.ts:176, 255, 565, 908, 1042, 1432-1433)
usedBy(kind) ==
  CASE kind = "connect" -> {"web3Enable", "web3Accounts", "web3AccountsSubscribe"}
    [] kind = "getBalance" -> apiEntries \cup {"formatBalance"}
    [] kind = "sendTransaction" -> apiEntries \cup {"web3FromAddress"}

connUnlessLibs == <<isConnecting, extensionsEnabled, enablePromise, promises, accountUnsubscribe,
                    subs, connections, connectors, events, conn, warmups, disconnects, env>>

\* getBalance (on a cache miss) or sendTransaction up to the first await of
\* loadPolkadotLibs (adapter.ts:880, 1024, 200-221): the first caller creates
\* this.libs and starts the imports, a later caller finds this.libs set
LoadLibsCall(a, kind, n) ==
  /\ canIssue(a)
  /\ libs' = IF libs = "none" THEN "empty" ELSE libs
  /\ api' = [api EXCEPT ![a] = [@ EXCEPT !.kind = kind, !.net = n,
                                         !.pc = IF libs = "none" THEN "libsLoad" ELSE "libs"]]
  /\ UNCHANGED <<clients, apiCache, balanceCache, now, ticks, drops, failing, connUnlessLibs,
                 pureVars>>

\* one of the three imports arrives for the caller that started them
ApiLibsImported(a) ==
  /\ api[a].pc = "libsLoad"
  /\ libs' = nextImport(libs)
  /\ api' = [api EXCEPT ![a].pc = IF libs' = "full" THEN "libs" ELSE "libsLoad"]
  /\ UNCHANGED <<clients, apiCache, balanceCache, now, ticks, drops, failing, connUnlessLibs,
                 pureVars>>

\* loadPolkadotLibs has returned: the caller calls getApi (adapter.ts:882,
\* 1035). Without WsProvider every candidate of the loop throws a TypeError
\* (1432), getApi throws the last one, and getBalance answers from its catch
\* block (933-941)
ApiLibsReturned(a) ==
  LET c == api[a] IN
  /\ c.pc = "libs"
  /\ c.kind \in {"getBalance", "sendTransaction"}
  /\ IF apiEntries \subseteq populated(libs) \/ noCandidates(resolveWsUrls(caipNetworks[c.net]))
     THEN getApi(a, c)
     ELSE /\ api' = [api EXCEPT ![a] =
                       afterGetApi([c EXCEPT !.acq = "exhausted",
                                             !.err = [kind |-> "typeError", url |-> noUrl]])]
          /\ UNCHANGED <<clients, apiCache>>
  /\ UNCHANGED <<balanceCache, now, ticks, drops, failing, connVars, pureVars>>

\* getBalance, sendTransaction and connect on a freshly constructed adapter
NextLibs ==
  \/ \E a \in ApiCalls, kind \in {"getBalance", "sendTransaction"}, n \in {"hub", "bare"} :
       LoadLibsCall(a, kind, n)
  \/ \E a \in ApiCalls : ApiLibsImported(a)
  \/ \E a \in ApiCalls : ApiLibsReturned(a)
  \/ \E a \in ApiCalls : AttemptReady(a)
  \/ \E c \in ConnectCalls : ConnectCall(c, connectParams("talisman", "none", "none"))
  \/ \E c \in ConnectCalls : LibsImported(c)
  \/ \E c \in ConnectCalls : EnsureEnabled(c)
  \/ \E c \in ConnectCalls : EnableSettled(c, "nonEmpty")

SpecLibs == InitNotify /\ [][NextLibs]_vars

\* C40: for every interleaving of getBalance, sendTransaction and connect on
\* a freshly constructed adapter, whenever loadPolkadotLibs has returned to a
\* caller, every library entry that caller goes on to use is populated: no
\* caller goes on with an entry another task is still loading.
C40_LibsPopulated ==
  /\ \A c \in ConnectCalls : conn[c].pc = "libs" => usedBy("connect") \subseteq populated(libs)
  /\ \A a \in ApiCalls : api[a].pc = "libs" => usedBy(api[a].kind) \subseteq populated(libs)

====
